---- MODULE Spec2Model ----
(***************************************************************************)
(* Oil-and-gas news aggregator: the article store (SQLite table           *)
(* "articles"), the run-once fetcher (integrated-fetcher.py), the         *)
(* worker-pool fetcher (fetcher.py), the keyword filter (also exp_rss.py) *)
(* and the dashboard's query (dashboard.py).                              *)
(*                                                                         *)
(* Texts that the code searches (titles, summaries, page texts, keywords, *)
(* search strings) are tuples of one-character strings, so that lower(),  *)
(* substring tests, whitespace collapsing and LIKE are computed as the    *)
(* code computes them. Links, source names and category names are only    *)
(* ever compared for equality and are plain strings.                      *)
(***************************************************************************)
EXTENDS Integers, Sequences, FiniteSets, TLC

VARIABLES
    store,        \* rows of table articles, in rowid order
    columns,      \* column names of table articles; {} while the table does not exist
    now,          \* the wall clock, in days
    web,          \* what the feed URLs and the arXiv URL return, what summary.py can print
    once_pc,      \* integrated-fetcher.py main(): position
    once_run,     \* number of runs of integrated-fetcher.py started
    once_feed,    \* index into FEEDS of the feed being fetched
    once_entries, \* entries of the current feed (or of arXiv) not yet handled
    once_cutoff,  \* cutoff_date of fetch_rss_feeds
    pool_pc,      \* fetcher.py main(): position
    pool_cycle,   \* number of collect_feeds cycles started
    queue,        \* feeds submitted to the executor and not yet picked up
    task,         \* per feed: the fetch_feed call a pool thread is running
    dash_pc,      \* dashboard.py main(): position
    view,         \* the last get_articles call: its arguments and what it returned
    flt,          \* the last keyword filter evaluation: its inputs and both verdicts
    calc,         \* the last calls of the helper functions: their inputs and results
    hist          \* history: what the fetchers did (read by the properties only)

vars == <<store, columns, now, web, once_pc, once_run, once_feed, once_entries,
          once_cutoff, pool_pc, pool_cycle, queue, task, dash_pc, view, flt, calc,
          hist>>

(***************************************************************************)
(* Text                                                                    *)
(***************************************************************************)
UpperCase == <<"A","B","C","D","E","F","G","H","I","J","K","L","M",
               "N","O","P","Q","R","S","T","U","V","W","X","Y","Z">>
LowerCase == <<"a","b","c","d","e","f","g","h","i","j","k","l","m",
               "n","o","p","q","r","s","t","u","v","w","x","y","z">>

\* str.lower() on one character
lower_char(c) ==
    IF \E i \in 1..Len(UpperCase) : UpperCase[i] = c
    THEN LowerCase[CHOOSE i \in 1..Len(UpperCase) : UpperCase[i] = c]
    ELSE c

\* str.lower()
lower(s) == [i \in 1..Len(s) |-> lower_char(s[i])]

\* Python's  k in t  on strings
contains(t, k) ==
    \E i \in 0..(Len(t) - Len(k)) : SubSeq(t, i + 1, i + Len(k)) = k

\* characters matched by the regular expression \s
IsSpace(c) == c \in {" ", "\t", "\n"}

\* re.sub(r'\s+', ' ', s): every run of whitespace becomes one space
RECURSIVE collapse_ws(_)
collapse_ws(s) ==
    IF s = <<>> THEN <<>>
    ELSE IF IsSpace(Head(s))
         THEN IF Len(s) > 1 /\ IsSpace(s[2])
              THEN collapse_ws(Tail(s))
              ELSE <<" ">> \o collapse_ws(Tail(s))
         ELSE <<Head(s)>> \o collapse_ws(Tail(s))

\* s[:n]
Take(s, n) == SubSeq(s, 1, IF Len(s) < n THEN Len(s) ELSE n)

\* f"{a} {b} {c}"
Join3(a, b, c) == a \o <<" ">> \o b \o <<" ">> \o c

\* SQLite's  text LIKE pattern : % is any run of characters, _ any one character,
\* letters compare case-insensitively
RECURSIVE Like(_, _)
Like(t, p) ==
    IF p = <<>> THEN t = <<>>
    ELSE IF Head(p) = "%"
         THEN Like(t, Tail(p)) \/ (t # <<>> /\ Like(Tail(t), p))
         ELSE /\ t # <<>>
              /\ (Head(p) = "_" \/ lower_char(Head(p)) = lower_char(Head(t)))
              /\ Like(Tail(t), Tail(p))

\* f"%{q}%"
LikePattern(q) == <<"%">> \o q \o <<"%">>

(***************************************************************************)
(* Configuration tables                                                    *)
(***************************************************************************)
kw_oil == <<"o","i","l">>
kw_AI == <<"A","I">>
kw_edge_computing == <<"e","d","g","e"," ","c","o","m","p","u","t","i","n","g">>
kw_gas == <<"g","a","s">>
kw_petroleum == <<"p","e","t","r","o","l","e","u","m">>
kw_machine_learning == <<"m","a","c","h","i","n","e"," ","l","e","a","r","n","i","n","g">>
kw_big_data_analytics == <<"b","i","g"," ","d","a","t","a"," ","a","n","a","l","y","t","i","c","s">>

\* three of the several hundred keywords: a lower-case one, an upper-case one
\* and one with a space in it
TECHNOLOGY_KEYWORDS == <<kw_oil, kw_AI, kw_edge_computing>>

DAYS_LIMIT == 180

\* the feed names of FEEDS, in dictionary order
FEEDS == <<"BOE Report", "AOG Digital">>

\* two of the six categories
PREDEFINED_CATEGORIES ==
    [c \in {"Oil & Gas Industry", "AI & Machine Learning Applications"} |->
        IF c = "Oil & Gas Industry"
        THEN <<kw_oil, kw_gas, kw_petroleum>>
        ELSE <<kw_AI, kw_machine_learning, kw_big_data_analytics>>]

\* entry.get("title", "No title"), entry.get("summary", "No summary available")
NoTitle == <<"N","o"," ","t","i","t","l","e">>
NoSummary == <<"N","o"," ","s","u","m","m","a","r","y"," ",
               "a","v","a","i","l","a","b","l","e">>
\* extract_full_text's sentinel for a non-200 response
ErrFetch == <<"E","r","r","o","r",":"," ","U","n","a","b","l","e"," ","t","o"," ",
              "f","e","t","c","h"," ","a","r","t","i","c","l","e">>
\* summary[:300]
SNIPPET_LEN == 300

\* SQL NULL in a TEXT column and in a REAL column (no score is negative)
NULL_TEXT == "<NULL>"
NULL_REAL == -1

(***************************************************************************)
(* Keyword filter                                                          *)
(***************************************************************************)
\* any(keyword.lower() in clean_text for keyword in TECHNOLOGY_KEYWORDS)
\* variant: the keyword is compared as written, without keyword.lower()
any_keyword_in_cased(clean_text) ==
    \E k \in 1..Len(TECHNOLOGY_KEYWORDS) : contains(clean_text, TECHNOLOGY_KEYWORDS[k])

any_keyword_in(clean_text) ==
    \E k \in 1..Len(TECHNOLOGY_KEYWORDS) :
        contains(clean_text, lower(TECHNOLOGY_KEYWORDS[k]))

\* variant: the entry is stored without a keyword test
keyword_filter_absent(title, summary, full_text) == TRUE

\* integrated-fetcher.py / fetch_data.py: clean_text is the lower-cased f-string
keyword_filter(title, summary, full_text) ==
    any_keyword_in(lower(Join3(title, summary, full_text)))

\* exp_rss.py: clean_text is also whitespace-collapsed
keyword_filter_exp(title, summary, full_text) ==
    any_keyword_in(collapse_ws(lower(Join3(title, summary, full_text))))

(***************************************************************************)
(* Article store                                                           *)
(***************************************************************************)
\* CREATE TABLE of integrated-fetcher.py and fetch_data.py
ColumnsOnce == {"id", "title", "link", "snippet", "published_date", "source",
                "full_text"}
\* CREATE TABLE of fetcher.py and of dashboard.py (same columns, other order)
ColumnsFull == ColumnsOnce \cup {"relevance_score", "locations", "novelty_score",
                                 "heat_score"}

\* variant: DROP TABLE and CREATE TABLE (the caller's schema replaces the table's)
create_table_anew(cols, schema) == schema

\* CREATE TABLE IF NOT EXISTS articles (...)
create_table_if_not_exists(cols, schema) == IF cols = {} THEN schema ELSE cols

\* variant: the existence check never finds the row
article_exists_never(st, link) == FALSE

\* SELECT COUNT(*) FROM articles WHERE link = ?   > 0
article_exists(st, link) == \E i \in 1..Len(st) : st[i].link = link

\* the UNIQUE constraint on link: NULLs never conflict
unique_conflict(st, row) ==
    row.link # NULL_TEXT /\ \E i \in 1..Len(st) : st[i].link = row.link

\* AUTOINCREMENT: one more than the largest rowid ever used
next_id(st) == Len(st) + 1

\* variant: a table whose link column is not UNIQUE (every insert appends)
insert_unchecked(st, row) == Append(st, [row EXCEPT !.id = next_id(st)])

\* variant: INSERT OR REPLACE (the new row displaces the old one)
insert_or_replace(st, row) ==
    IF unique_conflict(st, row)
    THEN [i \in 1..Len(st) |-> IF st[i].link = row.link
                               THEN [row EXCEPT !.id = st[i].id] ELSE st[i]]
    ELSE Append(st, [row EXCEPT !.id = next_id(st)])

\* INSERT OR IGNORE INTO articles ... : a row whose link is taken is dropped
insert_or_ignore(st, row) ==
    IF unique_conflict(st, row) THEN st
    ELSE Append(st, [row EXCEPT !.id = next_id(st)])

\* variant: the connection is closed without a commit (its changes are rolled back)
close_uncommitted(table, changed) == table

\* conn.commit() after the INSERT (integrated-fetcher.py), or leaving
\* "with sqlite3.connect(...) as conn" without an exception (fetcher.py): the
\* changes of the connection become the table
commit(table, changed) == changed

\* the columns an INSERT does not name take their defaults
with_defaults(cols, named) ==
    LET all == [id |-> 0, relevance_score |-> NULL_REAL, locations |-> NULL_TEXT,
                novelty_score |-> 0, heat_score |-> 0] @@ named
    IN  [c \in cols |-> IF c \in DOMAIN named THEN named[c] ELSE all[c]]

\* integrated-fetcher.py insert_article(title, link, snippet, published_date,
\* source, full_text="")
insert_article_once(st, cols, title, link, snippet, published_date, source, full_text) ==
    commit(st, insert_or_ignore(st, with_defaults(cols,
        [title |-> title, link |-> link, snippet |-> snippet,
         published_date |-> published_date, source |-> source,
         full_text |-> full_text])))

\* fetcher.py DatabaseManager.insert_article names ten columns: on a table that
\* lacks one of them sqlite3 raises OperationalError
insert_article_raises(cols) == ~(ColumnsFull \subseteq cols)

\* variant: the novelty and heat values bound to each other's column
insert_article_swapped(st, cols, article) ==
    insert_or_ignore(st, with_defaults(cols,
        [article EXCEPT !.novelty_score = article.heat_score,
                        !.heat_score = article.novelty_score]))

\* fetcher.py DatabaseManager.insert_article(article)
insert_article(st, cols, article) ==
    commit(st, insert_or_ignore(st, with_defaults(cols, article)))

(***************************************************************************)
(* Dashboard query                                                         *)
(***************************************************************************)
\* the columns get_articles selects
SelectColumns == ColumnsFull \ {"full_text"}

\* "(title LIKE ? OR snippet LIKE ?)" with both parameters f"%{search_query}%"
search_condition(r, search_query) ==
    Like(r.title, LikePattern(search_query)) \/ Like(r.snippet, LikePattern(search_query))

\* variant: the two source conditions exchanged
source_condition_swapped(r, source_filter) ==
    IF source_filter = "RSS" THEN r.source = "arXiv"
    ELSE IF source_filter = "arXiv" THEN r.source # "arXiv"
    ELSE TRUE

\* "source != 'arXiv'" / "source = 'arXiv'"; any other value adds no condition
source_condition(r, source_filter) ==
    IF source_filter = "RSS" THEN r.source # "arXiv"
    ELSE IF source_filter = "arXiv" THEN r.source = "arXiv"
    ELSE TRUE

\* "(title LIKE ? OR snippet LIKE ? OR title LIKE ? OR ...)" over the category's keywords
category_condition(r, keywords) ==
    \E k \in 1..Len(keywords) :
        Like(r.title, LikePattern(keywords[k])) \/ Like(r.snippet, LikePattern(keywords[k]))

\* PREDEFINED_CATEGORIES.get(category, [])
category_keywords(category) ==
    IF category \in DOMAIN PREDEFINED_CATEGORIES THEN PREDEFINED_CATEGORIES[category]
    ELSE <<>>

\* variant: the conditions joined with OR instead of AND
where_clause_or(r, search_query, source_filter, category) ==
    \/ search_query # <<>> /\ search_condition(r, search_query)
    \/ source_filter # "All" /\ source_condition(r, source_filter)
    \/ /\ category # "All" /\ category_keywords(category) # <<>>
       /\ category_condition(r, category_keywords(category))

\* " WHERE " + " AND ".join(query_conditions)
where_clause(r, search_query, source_filter, category) ==
    /\ search_query # <<>> => search_condition(r, search_query)
    /\ source_filter # "All" => source_condition(r, source_filter)
    /\ (category # "All" /\ category_keywords(category) # <<>>)
          => category_condition(r, category_keywords(category))

\* the hour of the day a published_date string shows (the fetchers' clocks count
\* whole days: their strings show hour 0)
hour_of(d) == IF "h" \in DOMAIN d THEN d.h ELSE 0

\* published_date is TEXT and compares as text: 'YYYY-MM-DD HH:MM:SS' (RSS) and
\* 'YYYY-MM-DDTHH:MM:SSZ' (arXiv) order by the day first, then ' ' < 'T', and
\* only then by the time of day
date_text_rank(d) == (2 * d.t + (IF d.fmt = "iso" THEN 1 ELSE 0)) * 24 + hour_of(d)

\* order_mapping.get(sort_by, 'published_date DESC')
order_key(r, sort_by) ==
    IF sort_by = "relevance" THEN r.relevance_score
    ELSE IF sort_by = "novelty" THEN r.novelty_score
    ELSE IF sort_by = "heat" THEN r.heat_score
    ELSE date_text_rank(r.published_date)

\* variant: no ORDER BY clause (the rows come in rowid order)
order_by_rowid(rows, sort_by) == rows

\* ORDER BY key DESC; rows with equal keys stay in rowid order
RECURSIVE order_by_desc(_, _)
order_by_desc(rows, sort_by) ==
    IF rows = <<>> THEN <<>>
    ELSE LET init == order_by_desc(SubSeq(rows, 1, Len(rows) - 1), sort_by)
             r == rows[Len(rows)]
             p == Cardinality({i \in 1..Len(init) :
                                 order_key(init[i], sort_by) >= order_key(r, sort_by)})
         IN  SubSeq(init, 1, p) \o <<r>> \o SubSeq(init, p + 1, Len(init))

\* the rows of a sequence that satisfy the WHERE clause, in order
RECURSIVE select_where(_, _, _, _)
select_where(st, search_query, source_filter, category) ==
    IF st = <<>> THEN <<>>
    ELSE (IF where_clause(Head(st), search_query, source_filter, category)
          THEN <<Head(st)>> ELSE <<>>)
         \o select_where(Tail(st), search_query, source_filter, category)

\* Article(**dict(row)): the ten selected columns
project(r) == [c \in SelectColumns |-> r[c]]

\* the SELECT raises OperationalError on a table without the selected columns
get_articles_raises(cols) == ~(SelectColumns \subseteq cols)

\* DashboardManager.get_articles(search_query, source_filter, category, sort_by)
get_articles(st, search_query, source_filter, category, sort_by) ==
    LET hits == order_by_desc(select_where(st, search_query, source_filter, category),
                              sort_by)
    IN  [i \in 1..Len(hits) |-> project(hits[i])]

\* pd.DataFrame([{'title': ..., 'novelty_score': ..., 'heat_score': ...,
\* 'relevance_score': ...} for article in articles]): the columns are the keys of
\* the dicts, so a frame built from no dict has no column
frame_columns(articles) ==
    IF articles = <<>> THEN {}
    ELSE {"title", "novelty_score", "heat_score", "relevance_score"}

\* create_score_distribution_chart(articles) reads df['novelty_score'],
\* df['heat_score'], df['relevance_score'] and df['title']: KeyError on a frame
\* without them
create_score_distribution_chart_raises(articles) ==
    ~({"novelty_score", "heat_score", "relevance_score", "title"}
          \subseteq frame_columns(articles))

\* what a run of main() leaves on the page besides the articles: the exception
\* Streamlit shows when get_articles or the chart raised, "none" otherwise
surfaced_error(cols, articles) ==
    IF get_articles_raises(cols) THEN "OperationalError"
    ELSE IF create_score_distribution_chart_raises(articles) THEN "KeyError"
    ELSE "none"

(***************************************************************************)
(* The outside world: feed entries, pages, the clock                       *)
(***************************************************************************)
MaxEntries == 2      \* longest feed
MaxRuns == 2         \* runs of integrated-fetcher.py
MaxCycles == 2       \* collect_feeds cycles of fetcher.py
MaxTicks == 1        \* days the clock advances

Now0 == DAYS_LIMIT + 20

T_OilRig == <<"O","i","l"," ","r","i","g">>
T_RigSold == <<"R","i","g"," ","s","o","l","d">>
T_NewPump == <<"N","e","w"," ","p","u","m","p">>
T_FlowModel == <<"F","l","o","w"," ","m","o","d","e","l">>
S_BigDeal == <<"B","i","g"," ","d","e","a","l">>
S_OilFlow == <<"O","i","l"," ","f","l","o","w">>
P_AITools == <<" ","A","I"," "," ","t","o","o","l","s","\n">>
P_SomeWords == <<"S","o","m","e"," ","w","o","r","d","s">>
P_Report == <<"N","e","w"," ","R","e","p","o","r","t"," ","l","a","u","n","c","h","e","s">>
P_Latest == <<"L","a","t","e","s","t"," ","n","o","v","e","l"," ","r","i","g">>
P_NovelRig == <<"A"," ","N","O","V","E","L"," ","r","i","g">>

\* RSS entries as feedparser yields them; an absent key is an absent field
EntryPool == {
    [title |-> T_OilRig, link |-> "u1", summary |-> S_BigDeal, published_parsed |-> Now0],
    [title |-> T_RigSold, link |-> "u1", summary |-> S_BigDeal, published_parsed |-> Now0],
    [title |-> T_NewPump, link |-> "u2", summary |-> S_BigDeal, published_parsed |-> Now0],
    [title |-> T_OilRig, link |-> "u3", published_parsed |-> Now0 - DAYS_LIMIT],
    [title |-> T_OilRig, summary |-> S_BigDeal, published_parsed |-> Now0],
    [title |-> T_OilRig, link |-> "u2", summary |-> S_BigDeal] }

\* arXiv entries
ArxivPool == {
    [title |-> T_FlowModel, link |-> "arx1", summary |-> S_OilFlow, updated |-> Now0 - 1],
    [title |-> T_NewPump, link |-> "arx2", summary |-> S_BigDeal, updated |-> Now0],
    [title |-> T_OilRig, summary |-> S_BigDeal] }

\* the HTTP response for each article link: status (0: the request raised) and
\* the text of the page's paragraphs
Pages == [l \in {"u1", "u2", "u3", "u4"} |->
            IF l = "u1" THEN [status |-> 200, text |-> P_AITools]
            ELSE IF l = "u2" THEN [status |-> 200, text |-> P_SomeWords]
            ELSE IF l = "u4" THEN [status |-> 200, text |-> P_Report]
            ELSE [status |-> 404, text |-> <<>>]]

SeqsUpTo(S, n) == UNION {[1..k -> S] : k \in 0..n}

\* what feedparser.parse(url) can give: a parsed feed, a feed flagged bozo, or
\* an exception
FeedStatesOf(P, n) ==
    {[status |-> "ok", entries |-> es] : es \in SeqsUpTo(P, n)}
    \cup {[status |-> "bozo", entries |-> <<e>>] : e \in {x \in P : x.title = T_RigSold}}
    \cup {[status |-> "down", entries |-> <<>>]}

FeedStates(n) == FeedStatesOf(EntryPool, n)

\* what requests.get(ARXIV_API_URL) can give
ArxivStates ==
    {[status |-> 200, entries |-> es] : es \in SeqsUpTo(ArxivPool, 1)}
    \cup {[status |-> 503, entries |-> <<>>]}

\* entry.get(key, default)
get(e, key, default) == IF key \in DOMAIN e THEN e[key] ELSE default

\* str.strip()
RECURSIVE lstrip(_)
lstrip(s) == IF s # <<>> /\ IsSpace(Head(s)) THEN lstrip(Tail(s)) ELSE s
RECURSIVE rstrip(_)
rstrip(s) == IF s # <<>> /\ IsSpace(s[Len(s)]) THEN rstrip(SubSeq(s, 1, Len(s) - 1)) ELSE s
strip(s) == rstrip(lstrip(s))

ErrExtract == <<"E","r","r","o","r"," ","e","x","t","r","a","c","t","i","n","g"," ",
                "t","e","x","t",":"," ">>

\* the try block of extract_full_text in integrated-fetcher.py and exp_rss.py:
\* requests.get raises (status 0 here) or the block returns a text
extract_try_once(response) ==
    IF response.status = 0 THEN [raised |-> TRUE, text |-> <<>>]
    ELSE IF response.status # 200 THEN [raised |-> FALSE, text |-> ErrFetch]
    ELSE [raised |-> FALSE, text |-> strip(collapse_ws(response.text))]

\* variant: extract_full_text without its except clause
extract_call_once_unguarded(response) == extract_try_once(response)

\* extract_full_text(url) of integrated-fetcher.py and exp_rss.py: the try block,
\* and  except Exception as e: return f"Error extracting text: {e}"
extract_call_once(response) ==
    IF extract_try_once(response).raised THEN [raised |-> FALSE, text |-> ErrExtract]
    ELSE extract_try_once(response)

\* the string integrated-fetcher.py's extract_full_text returns
extract_full_text_once(response) == extract_call_once(response).text

\* the try block of fetcher.py's extract_full_text: requests.get raises, or
\* raise_for_status() raises on a 4xx or 5xx status, or the block returns a text
extract_try(response) ==
    IF response.status = 0 \/ response.status >= 400 THEN [raised |-> TRUE, text |-> <<>>]
    ELSE [raised |-> FALSE, text |-> strip(collapse_ws(strip(response.text)))]

\* fetcher.py ArticleProcessor.extract_full_text(url): the try block, and
\* except Exception as e: return ""
extract_call(response) ==
    IF extract_try(response).raised THEN [raised |-> FALSE, text |-> <<>>]
    ELSE extract_try(response)

\* the string fetcher.py's extract_full_text returns
extract_full_text(response) == extract_call(response).text

\* published_date.strftime("%Y-%m-%d %H:%M:%S")
strftime(t) == [fmt |-> "sql", t |-> t]
\* an Atom timestamp / datetime.isoformat()
isoformat(t) == [fmt |-> "iso", t |-> t]

\* the days the clock may have advanced when it is read next
ClockReads == {d \in 0..1 : now + d <= Now0 + MaxTicks}

(***************************************************************************)
(* integrated-fetcher.py: main() = create_articles_table(); fetch_rss_feeds(); *)
(* fetch_arxiv()                                                           *)
(***************************************************************************)
NoEntry == [by |-> "none", title |-> <<>>, summary |-> <<>>, full_text |-> <<>>]

\* history of an insert: the entry a row was appended for, or the link of the
\* insert that appended nothing
Wrote(h, st, st2, by, link, title, summary, full_text) ==
    IF Len(st2) > Len(st)
    THEN [h EXCEPT !.wrote = [by |-> by, title |-> title, summary |-> summary,
                              full_text |-> full_text],
                   !.once_added = IF by = "pool" THEN @ ELSE @ + 1,
                   !.pool_added = IF by = "pool" THEN @ + 1 ELSE @]
    ELSE [h EXCEPT !.ignored = @ \cup {[by |-> by, link |-> link]}]

\* main(): create_articles_table(), then fetch_rss_feeds() computes cutoff_date
OnceStart ==
    /\ once_pc \in {"idle", "done"}
    /\ once_run < MaxRuns
    /\ \E d \in ClockReads :
          /\ now' = now + d
          /\ once_cutoff' = now + d - DAYS_LIMIT
    /\ columns' = create_table_if_not_exists(columns, ColumnsOnce)
    /\ once_run' = once_run + 1
    /\ once_feed' = 1
    /\ once_entries' = <<>>
    /\ once_pc' = "rss_parse"
    /\ hist' = [hist EXCEPT !.once_added = 0, !.once_tried = <<>>]
    /\ UNCHANGED <<store, web, pool_pc, pool_cycle, queue, task, dash_pc, view, flt, calc>>

\* variant: the bozo flag is not looked at
bozo_ignored(feed) == FALSE

\* feed.bozo
bozo(feed) == feed.status = "bozo"

\* variant: the loop over FEEDS is left after the first feed handled
once_after_feed_stop == "arxiv_get"

\* the position after the current feed: the next feed, or fetch_arxiv()
once_after_feed == IF once_feed < Len(FEEDS) THEN "rss_parse" ELSE "arxiv_get"

\* feed = feedparser.parse(url): an exception is caught by the feed's try, a bozo
\* feed is skipped by continue, otherwise the loop over feed.entries starts
OnceParseFeed ==
    /\ once_pc = "rss_parse"
    /\ LET feed == web.feeds[FEEDS[once_feed]]
       IN  IF feed.status # "down" /\ ~bozo(feed) /\ feed.entries # <<>>
           THEN /\ once_entries' = feed.entries
                /\ once_pc' = "rss_entry"
                /\ UNCHANGED once_feed
           ELSE /\ once_entries' = <<>>
                /\ once_pc' = once_after_feed
                /\ once_feed' = IF once_feed < Len(FEEDS) THEN once_feed + 1 ELSE once_feed
    /\ hist' = [hist EXCEPT !.once_tried = Append(@, FEEDS[once_feed])]
    /\ UNCHANGED <<store, columns, now, web, once_run, once_cutoff, pool_pc, pool_cycle,
                   queue, task, dash_pc, view, flt, calc>>

\* variant: an entry without a date takes the date of the first run
parse_published_or_default(entry) ==
    [ok |-> TRUE, t |-> get(entry, "published_parsed", Now0)]

\* published_date = datetime(*entry.published_parsed[:6], tzinfo=timezone.utc),
\* and  except (AttributeError, TypeError): continue
parse_published(entry) ==
    IF "published_parsed" \in DOMAIN entry
    THEN [ok |-> TRUE, t |-> entry.published_parsed]
    ELSE [ok |-> FALSE, t |-> 0]

\* variant: the entry dated exactly at the cutoff is discarded as well
too_old_inclusive(published_date, cutoff_date) == published_date <= cutoff_date

\* if published_date < cutoff_date: continue
too_old(published_date, cutoff_date) == published_date < cutoff_date

\* the body of  for entry in feed.entries  (with the feed's name as source)
OnceEntry ==
    /\ once_pc = "rss_entry"
    /\ LET entry == Head(once_entries)
           title == get(entry, "title", NoTitle)
           link == get(entry, "link", "No link")
           summary == get(entry, "summary", NoSummary)
           published_date == parse_published(entry)
           full_text == IF link # "No link" THEN extract_full_text_once(Pages[link])
                        ELSE <<>>
           stored == insert_article_once(store, columns, title, link,
                        Take(summary, SNIPPET_LEN), strftime(published_date.t),
                        FEEDS[once_feed], full_text)
       IN  IF published_date.ok /\ ~too_old(published_date.t, once_cutoff)
                    /\ keyword_filter(title, summary, full_text)
           THEN /\ store' = stored
                /\ hist' = Wrote(hist, store, stored, "rss", link, title, summary, full_text)
           ELSE UNCHANGED <<store, hist>>
    /\ once_entries' = Tail(once_entries)
    /\ IF Tail(once_entries) = <<>>
       THEN /\ once_pc' = once_after_feed
            /\ once_feed' = IF once_feed < Len(FEEDS) THEN once_feed + 1 ELSE once_feed
       ELSE UNCHANGED <<once_pc, once_feed>>
    /\ UNCHANGED <<columns, now, web, once_run, once_cutoff, pool_pc, pool_cycle,
                   queue, task, dash_pc, view, flt, calc>>

\* fetch_arxiv(): response = requests.get(ARXIV_API_URL); a non-200 status or an
\* exception ends the function
OnceArxivGet ==
    /\ once_pc = "arxiv_get"
    /\ IF web.arxiv.status = 200 /\ web.arxiv.entries # <<>>
       THEN once_entries' = web.arxiv.entries /\ once_pc' = "arxiv_entry"
       ELSE once_entries' = <<>> /\ once_pc' = "done"
    /\ hist' = [hist EXCEPT !.once_tried = Append(@, "arXiv")]
    /\ UNCHANGED <<store, columns, now, web, once_run, once_feed, once_cutoff, pool_pc,
                   pool_cycle, queue, task, dash_pc, view, flt, calc>>

\* the body of fetch_arxiv's  for entry in feed.entries
OnceArxivEntry ==
    /\ once_pc = "arxiv_entry"
    /\ \E d \in (IF "updated" \in DOMAIN Head(once_entries) THEN {0} ELSE ClockReads) :
         LET entry == Head(once_entries)
             title == get(entry, "title", <<"N","o"," ","T","i","t","l","e">>)
             link == get(entry, "link", "")
             snippet == Take(get(entry, "summary", <<>>), SNIPPET_LEN)
             published_date == isoformat(get(entry, "updated", now + d))
             stored == insert_article_once(store, columns, title, link, snippet,
                          published_date, "arXiv", <<>>)
         IN  /\ now' = now + d
             /\ store' = stored
             /\ hist' = Wrote(hist, store, stored, "arxiv", link, title,
                              get(entry, "summary", <<>>), <<>>)
    /\ once_entries' = Tail(once_entries)
    /\ once_pc' = IF Tail(once_entries) = <<>> THEN "done" ELSE "arxiv_entry"
    /\ UNCHANGED <<columns, web, once_run, once_feed, once_cutoff, pool_pc, pool_cycle,
                   queue, task, dash_pc, view, flt, calc>>

OnceNext == OnceStart \/ OnceParseFeed \/ OnceEntry \/ OnceArxivGet \/ OnceArxivEntry

(***************************************************************************)
(* fetcher.py: ArticleProcessor                                            *)
(***************************************************************************)
MAX_WORKERS == 5

kw_novel == <<"n","o","v","e","l">>
kw_latest == <<"l","a","t","e","s","t">>
kw_report == <<"r","e","p","o","r","t">>
kw_launches == <<"l","a","u","n","c","h","e","s">>

\* two of the twelve innovation indicators, with their weights
innovation_indicators == <<[indicator |-> kw_novel, weight |-> 6],
                           [indicator |-> kw_latest, weight |-> 4]>>
\* two of the eight trending indicators, with their weights
trending_indicators == <<[indicator |-> kw_report, weight |-> 4],
                         [indicator |-> kw_launches, weight |-> 6]>>

\* the loop  for indicator, weight in indicators.items(): if indicator in text:
\* score += weight  (score and total_weight receive the same additions)
RECURSIVE matched_weight(_, _)
matched_weight(indicators, text) ==
    IF indicators = <<>> THEN 0
    ELSE (IF contains(text, Head(indicators).indicator) THEN Head(indicators).weight ELSE 0)
         + matched_weight(Tail(indicators), text)

Min(a, b) == IF a < b THEN a ELSE b
Max(a, b) == IF a > b THEN a ELSE b

\* the sum of the weights of all indicators
RECURSIVE sum_of_weights(_)
sum_of_weights(indicators) ==
    IF indicators = <<>> THEN 0
    ELSE Head(indicators).weight + sum_of_weights(Tail(indicators))

\* variant: total_weight is the weight of all indicators, matched or not
calculate_novelty_score_weighted(text) ==
    LET score == matched_weight(innovation_indicators, lower(text))
        total_weight == sum_of_weights(innovation_indicators)
    IN  Min(100, (score * 100) \div Max(total_weight, 1))

\* calculate_novelty_score(text): min(100.0, (score / max(total_weight, 1)) * 100)
calculate_novelty_score(text) ==
    LET score == matched_weight(innovation_indicators, lower(text))
        total_weight == score
    IN  Min(100, (score * 100) \div Max(total_weight, 1))

\* variant: the sum is returned without min(100.0, ...)
calculate_heat_score_unclamped(text, published_date, today) ==
    LET base_score == matched_weight(trending_indicators, lower(text))
    IN  (base_score * 70) \div Max(base_score, 1)
        + (IF published_date.fmt = "sql" THEN Max(0, 30 - (today - published_date.t))
           ELSE 15)

\* calculate_heat_score(text, published_date), with today = datetime.now():
\* strptime accepts only the '%Y-%m-%d %H:%M:%S' form, any other string gives
\* recency_factor 0.5; recency_factor * 30 = max(0, 30 - days_old) otherwise
calculate_heat_score(text, published_date, today) ==
    LET base_score == matched_weight(trending_indicators, lower(text))
        total_weight == base_score
        recency_30 == IF published_date.fmt = "sql"
                      THEN Max(0, 30 - (today - published_date.t))
                      ELSE 15
    IN  Min(100, (base_score * 70) \div Max(total_weight, 1) + recency_30)

L_Summary == <<"S","U","M","M","A","R","Y",":"," ","r","i","g","s">>
L_Error == <<"E","r","r","o","r",":"," ","t","i","m","e","d"," ","o","u","t">>
L_ErrIndex == <<"E","r","r","o","r",":"," ","i","n","d","e","x">>
L_ErrFloat == <<"E","r","r","o","r",":"," ","f","l","o","a","t">>

\* "RELEVANCE SCORE: "
RelevanceMarker == <<"R","E","L","E","V","A","N","C","E"," ","S","C","O","R","E",":"," ">>

\* what summary.py prints: the summary, a newline, the marker and text t
Printed(t) == L_Summary \o <<"\n">> \o RelevanceMarker \o t

\* what subprocess.check_output can give: an exception (non-zero exit, timeout) or
\* the text printed: with a score, without the marker, with a score of 850, with
\* a word, nothing or a version-like number after the marker, with a score out of 100
LLMOutputs ==
    {[fail |-> TRUE, text |-> <<>>],
     [fail |-> FALSE, text |-> Printed(<<"8","5">>) \o <<"\n">>],
     [fail |-> FALSE, text |-> L_Summary \o <<"\n">>],
     [fail |-> FALSE, text |-> Printed(<<"8","5","0">>)],
     [fail |-> FALSE, text |-> Printed(<<"h","i","g","h">>)],
     [fail |-> FALSE, text |-> Printed(<<>>)],
     [fail |-> FALSE, text |-> Printed(<<"8",".","5",".","1">>)],
     [fail |-> FALSE, text |-> Printed(<<"8","5","/","1","0","0"," ","o","k">>)]}

\* the outputs of a summariser that fails or prints a score of 85
PlainOutputs == {o \in LLMOutputs : o.fail \/ o.text = Printed(<<"8","5">>) \o <<"\n">>}

\* str.find: the first position at which k occurs in t, 0 if none
find(t, k) ==
    LET at == {i \in 1..(Len(t) - Len(k) + 1) : SubSeq(t, i, i + Len(k) - 1) = k}
    IN  IF at = {} THEN 0 ELSE CHOOSE i \in at : \A j \in at : i <= j

\* str.split(sep): the pieces of t between the occurrences of sep
RECURSIVE split(_, _)
split(t, sep) ==
    IF find(t, sep) = 0 THEN <<t>>
    ELSE <<SubSeq(t, 1, find(t, sep) - 1)>>
         \o split(SubSeq(t, find(t, sep) + Len(sep), Len(t)), sep)

\* str.split()[0]: the first run of non-whitespace characters, <<>> if there is none
RECURSIVE first_word(_)
first_word(t) ==
    LET u == lstrip(t)
    IN  IF u = <<>> \/ IsSpace(Head(u)) THEN <<>>
        ELSE <<Head(u)>> \o (IF Len(u) > 1 /\ ~IsSpace(u[2]) THEN first_word(Tail(u))
                             ELSE <<>>)

DigitChars == <<"0","1","2","3","4","5","6","7","8","9">>
IsNumberChar(c) == c = "." \/ \E d \in 1..10 : DigitChars[d] = c

\* re.findall(r"[\d.]+", t)[0]: the first longest run of digits and dots
RECURSIVE first_number_run(_)
first_number_run(t) ==
    IF t = <<>> THEN <<>>
    ELSE IF ~IsNumberChar(Head(t)) THEN first_number_run(Tail(t))
    ELSE <<Head(t)>> \o (IF Len(t) > 1 /\ IsNumberChar(t[2]) THEN first_number_run(Tail(t))
                         ELSE <<>>)

\* the value of a run of digits
RECURSIVE digits_value(_)
digits_value(ds) ==
    IF ds = <<>> THEN 0
    ELSE 10 * digits_value(SubSeq(ds, 1, Len(ds) - 1))
         + (CHOOSE d \in 0..9 : DigitChars[d + 1] = ds[Len(ds)])

\* float(run): ValueError unless the run has a digit and at most one dot; the
\* value is that of the digits before the dot (the runs used here have no
\* digit other than 0 after it)
float_of(run) ==
    LET dots == {i \in 1..Len(run) : run[i] = "."}
        whole == IF dots = {} THEN run
                 ELSE SubSeq(run, 1, (CHOOSE i \in dots : TRUE) - 1)
    IN  IF Cardinality(dots) > 1 \/ Len(run) = Cardinality(dots)
        THEN [ok |-> FALSE, value |-> 0]
        ELSE [ok |-> TRUE, value |-> digits_value(whole)]

\* the try block of get_llm_summary: what it returns, or the exception it raises
llm_try(output) ==
    IF output.fail THEN [raised |-> TRUE, summary |-> L_Error, relevance |-> 0]
    ELSE LET parts == split(strip(output.text), RelevanceMarker)
             summary == strip(parts[1])
             words == IF Len(parts) > 1 THEN first_word(parts[2]) ELSE <<"0">>
             run == first_number_run(words)
         IN  IF words = <<>> \/ run = <<>>
             THEN [raised |-> TRUE, summary |-> L_ErrIndex, relevance |-> 0]
             ELSE IF ~float_of(run).ok
             THEN [raised |-> TRUE, summary |-> L_ErrFloat, relevance |-> 0]
             ELSE [raised |-> FALSE, summary |-> summary,
                   relevance |-> float_of(run).value]

\* variant: get_llm_summary without its except clause
get_llm_summary_call_unguarded(output) == llm_try(output)

\* get_llm_summary(text): the try block, and  except Exception as e: return
\* f"Error: {str(e)}", 0.0
get_llm_summary_call(output) ==
    IF llm_try(output).raised
    THEN [raised |-> FALSE, summary |-> llm_try(output).summary, relevance |-> 0]
    ELSE llm_try(output)

\* the pair get_llm_summary returns
get_llm_summary(output) ==
    [summary |-> get_llm_summary_call(output).summary,
     relevance |-> get_llm_summary_call(output).relevance]

\* what process_entry returns from its except clause
None == [none |-> TRUE]

\* process_entry(entry, source) after the article_exists test: the Article built,
\* or None when a call inside its try block raised
process_entry(entry, source, output, today) ==
    LET link == get(entry, "link", "")
        scraped_text == extract_full_text(Pages[link])
        published_t == get(entry, "published_parsed", today)
        llm == get_llm_summary(output)
    IN  IF extract_call(Pages[link]).raised \/ get_llm_summary_call(output).raised
        THEN None
        ELSE
        [title |-> get(entry, "title", NoTitle),
         link |-> link,
         snippet |-> llm.summary,
         relevance_score |-> llm.relevance,
         published_date |-> strftime(published_t),
         source |-> source,
         full_text |-> scraped_text,
         locations |-> "",
         novelty_score |-> calculate_novelty_score(scraped_text),
         heat_score |-> calculate_heat_score(scraped_text, strftime(published_t), today)]

(***************************************************************************)
(* fetcher.py: FeedCollector and main()                                    *)
(***************************************************************************)
FeedNames == {FEEDS[i] : i \in 1..Len(FEEDS)}

\* the last six feeds of fetcher.py's FEEDS dictionary, in its order
FETCHER_FEEDS == FEEDS \o <<"Adrian", "Oil and Gas Investments", "Yokogawa", "Medium">>

\* the feeds of the dictionary in use: those the world has a feed for
PoolFeeds == DOMAIN task

\* a feed no pool thread is working on
NoOutput == [fail |-> FALSE, text |-> <<>>]
NoTask == [pc |-> "idle", entries |-> <<>>, article |-> None, output |-> NoOutput]

\* the feeds a pool thread is working on
Running == {f \in PoolFeeds : task[f].pc \in {"parse", "check", "process", "insert"}}

\* variant: the executor has a thread for every submitted call
worker_free_always == TRUE

\* ThreadPoolExecutor(max_workers=MAX_WORKERS): a thread is free
worker_free == Cardinality(Running) < MAX_WORKERS

\* collector = FeedCollector(): DatabaseManager.__init__ creates the table
PoolStart ==
    /\ pool_pc = "idle"
    /\ columns' = create_table_if_not_exists(columns, ColumnsFull)
    /\ pool_pc' = "collect"
    /\ UNCHANGED <<store, now, web, once_pc, once_run, once_feed, once_entries,
                   once_cutoff, pool_cycle, queue, task, dash_pc, view, flt, calc, hist>>

\* collect_feeds(): every feed of FEEDS is submitted to the executor
PoolCollect ==
    /\ pool_pc = "collect"
    /\ pool_cycle < MaxCycles
    /\ pool_cycle' = pool_cycle + 1
    /\ queue' = SelectSeq(FETCHER_FEEDS, LAMBDA f : f \in PoolFeeds)
    /\ task' = [f \in PoolFeeds |-> NoTask]
    /\ pool_pc' = "join"
    /\ hist' = [hist EXCEPT !.pool_added = 0, !.pool_tried = [f \in PoolFeeds |-> 0]]
    /\ UNCHANGED <<store, columns, now, web, once_pc, once_run, once_feed, once_entries,
                   once_cutoff, dash_pc, view, flt, calc>>

\* a free pool thread takes the oldest submitted feed and calls fetch_feed
TaskStart ==
    /\ queue # <<>>
    /\ worker_free
    /\ task' = [task EXCEPT ![Head(queue)].pc = "parse"]
    /\ queue' = Tail(queue)
    /\ UNCHANGED <<store, columns, now, web, once_pc, once_run, once_feed, once_entries,
                   once_cutoff, pool_pc, pool_cycle, dash_pc, view, flt, calc, hist>>

\* fetch_feed: feedparser.parse(url); an exception is caught and ends the call, a
\* bozo feed ends it by return
TaskParse(f) ==
    /\ task[f].pc = "parse"
    /\ LET feed == web.feeds[f]
       IN  task' = [task EXCEPT ![f] =
                IF feed.status # "down" /\ ~bozo(feed) /\ feed.entries # <<>>
                THEN [NoTask EXCEPT !.pc = "check", !.entries = feed.entries]
                ELSE [NoTask EXCEPT !.pc = "done"]]
    /\ hist' = [hist EXCEPT !.pool_tried[f] = @ + 1]
    /\ UNCHANGED <<store, columns, now, web, once_pc, once_run, once_feed, once_entries,
                   once_cutoff, pool_pc, pool_cycle, queue, dash_pc, view, flt, calc>>

\* the task after the current entry has been dealt with
task_next_entry(t) ==
    [NoTask EXCEPT !.pc = IF Tail(t.entries) = <<>> THEN "done" ELSE "check",
                   !.entries = Tail(t.entries)]

\* process_entry:  if not link or self.db_manager.article_exists(link): return None
TaskCheck(f) ==
    /\ task[f].pc = "check"
    /\ LET link == get(Head(task[f].entries), "link", "")
       IN  task' = [task EXCEPT ![f] =
                IF link = "" \/ article_exists(store, link)
                THEN task_next_entry(task[f])
                ELSE [task[f] EXCEPT !.pc = "process"]]
    /\ UNCHANGED <<store, columns, now, web, once_pc, once_run, once_feed, once_entries,
                   once_cutoff, pool_pc, pool_cycle, queue, dash_pc, view, flt, calc, hist>>

\* process_entry: the scrape, the summariser call and the two scores
TaskProcess(f) ==
    /\ task[f].pc = "process"
    /\ \E output \in web.llm, d \in ClockReads :
          /\ now' = now + d
          /\ LET article == process_entry(Head(task[f].entries), f, output, now + d)
             IN  task' = [task EXCEPT ![f] =
                      IF article = None THEN task_next_entry(task[f])
                      ELSE [task[f] EXCEPT !.pc = "insert", !.article = article,
                                           !.output = output]]
    /\ UNCHANGED <<store, columns, web, once_pc, once_run, once_feed, once_entries,
                   once_cutoff, pool_pc, pool_cycle, queue, dash_pc, view, flt, calc, hist>>

\* history of an insert_article call
Inserted(h, st, st2, f, article, left) ==
    LET h1 == Wrote(h, st, st2, "pool", article.link, article.title, <<>>,
                   article.full_text)
    IN  [h1 EXCEPT
           !.first = IF \E r \in @ : r.link = article.link THEN @
                     ELSE @ \cup {[link |-> article.link, title |-> article.title,
                                   source |-> article.source, snippet |-> article.snippet,
                                   relevance_score |-> article.relevance_score]},
           !.lost = IF \E i \in 1..Len(st) : st[i].link = article.link
                    THEN @ \cup {[feed |-> f, link |-> article.link, left |-> left]}
                    ELSE @]

\* fetch_feed:  if article: self.processor.db_manager.insert_article(article) ;
\* an exception raised by the insert ends fetch_feed in its except clause
TaskInsert(f) ==
    /\ task[f].pc = "insert"
    /\ IF insert_article_raises(columns)
       THEN /\ task' = [task EXCEPT ![f] = [NoTask EXCEPT !.pc = "done"]]
            /\ hist' = [hist EXCEPT !.raised = @ \cup {f}]
            /\ UNCHANGED store
       ELSE LET stored == insert_article(store, columns, task[f].article)
            IN  /\ store' = stored
                /\ task' = [task EXCEPT ![f] = task_next_entry(task[f])]
                /\ hist' = Inserted(hist, store, stored, f, task[f].article,
                                    Len(task[f].entries) - 1)
    /\ UNCHANGED <<columns, now, web, once_pc, once_run, once_feed, once_entries,
                   once_cutoff, pool_pc, pool_cycle, queue, dash_pc, view, flt, calc>>

\* variant: executor.shutdown(wait=False): the with block is left at once
executor_exit_nowait == TRUE

\* leaving "with ThreadPoolExecutor(...) as executor" is shutdown(wait=True):
\* it returns when every submitted call has run and returned
executor_exit == queue = <<>> /\ Running = {}

\* the with-block of collect_feeds ends when every submitted call has returned;
\* main() sleeps and starts the next cycle
PoolJoin ==
    /\ pool_pc = "join"
    /\ executor_exit
    /\ pool_pc' = "collect"
    /\ UNCHANGED <<store, columns, now, web, once_pc, once_run, once_feed, once_entries,
                   once_cutoff, pool_cycle, queue, task, dash_pc, view, flt, calc, hist>>

PoolNext ==
    \/ PoolStart \/ PoolCollect \/ TaskStart \/ PoolJoin
    \/ \E f \in PoolFeeds : TaskParse(f) \/ TaskCheck(f) \/ TaskProcess(f) \/ TaskInsert(f)

(***************************************************************************)
(* dashboard.py: main() runs anew on every interaction                     *)
(***************************************************************************)
Q_OIL == <<"O","I","L">>
Q_ig == <<"i","g">>
Q_r_g == <<"r","_","g">>

\* what the user can put into the four widgets
SearchQueries == {<<>>, Q_OIL, Q_ig, Q_r_g}
SourceFilters == {"All", "RSS", "arXiv"}
Categories == {"All"} \cup DOMAIN PREDEFINED_CATEGORIES
SortKeys == {"date"}

\* dashboard = DashboardManager(): __init__ calls setup_database()
DashSetup ==
    /\ dash_pc = "idle"
    /\ columns' = create_table_if_not_exists(columns, ColumnsFull)
    /\ dash_pc' = "ready"
    /\ UNCHANGED <<store, now, web, once_pc, once_run, once_feed, once_entries,
                   once_cutoff, pool_pc, pool_cycle, queue, task, view, flt, calc, hist>>

\* every combination of the four widgets
Queries == [search_query : SearchQueries, source_filter : SourceFilters,
            category : Categories, sort_by : SortKeys]

\* the widgets as main() first shows them
DefaultQueries == {q \in Queries : /\ q.search_query = <<>> /\ q.source_filter = "All"
                                   /\ q.category = "All" /\ q.sort_by = "date"}

\* articles = dashboard.get_articles(search_query, source_filter,
\* selected_category, sort_by); the script run then draws the chart of the
\* articles, renders them and ends
DashQuery(Qs) ==
    /\ dash_pc = "ready"
    /\ \E q \in Qs :
          LET articles == IF get_articles_raises(columns) THEN <<>>
                          ELSE get_articles(store, q.search_query, q.source_filter,
                                            q.category, q.sort_by)
          IN  view' = [called |-> TRUE,
                       raised |-> get_articles_raises(columns),
                       search_query |-> q.search_query,
                       source_filter |-> q.source_filter,
                       category |-> q.category, sort_by |-> q.sort_by,
                       rows |-> articles,
                       seen |-> Len(store),
                       surfaced |-> surfaced_error(columns, articles)]
    /\ dash_pc' = "idle"
    /\ UNCHANGED <<store, columns, now, web, once_pc, once_run, once_feed, once_entries,
                   once_cutoff, pool_pc, pool_cycle, queue, task, flt, calc, hist>>


(***************************************************************************)
(* The keyword filter on its own                                           *)
(***************************************************************************)
T_EdgeComputing == <<"E","d","g","e"," ","\t","c","o","m","p","u","t","i","n","g">>
T_Edge == <<"s","m","a","r","t"," ","E","D","G","E">>
S_Computing == <<"c","o","m","p","u","t","i","n","g"," ","n","o","w">>
S_Toil == <<"T","O","I","L">>

FilterTitles == {T_OilRig, T_NewPump, T_EdgeComputing, T_Edge, NoTitle}
FilterSummaries == {S_BigDeal, S_Computing, S_Toil, NoSummary, <<>>}
FilterTexts == {<<>>, P_SomeWords, strip(collapse_ws(P_AITools)), ErrFetch}

\* integrated-fetcher.py and exp_rss.py decide on the same entry
ApplyFilter ==
    /\ ~flt.applied
    /\ flt' = [flt EXCEPT !.applied = TRUE,
                          !.accepted = keyword_filter(flt.title, flt.summary, flt.full_text),
                          !.accepted_exp = keyword_filter_exp(flt.title, flt.summary,
                                                              flt.full_text)]
    /\ UNCHANGED <<store, columns, now, web, once_pc, once_run, once_feed, once_entries,
                   once_cutoff, pool_pc, pool_cycle, queue, task, dash_pc, view, calc,
                   hist>>

(***************************************************************************)
(* exp_rss.py: fetch_feed                                                  *)
(***************************************************************************)
Unavailable == <<"F","u","l","l"," ","t","e","x","t"," ","u","n","a","v","a","i","l","a","b","l","e">>

\* the loop  for entry in feed.entries[:max_entries]  of exp_rss.py's fetch_feed:
\* the entries appended to feed_data["entries"]
RECURSIVE exp_entries(_, _)
exp_entries(entries, cutoff_date) ==
    IF entries = <<>> THEN <<>>
    ELSE LET entry == Head(entries)
             title == get(entry, "title", NoTitle)
             link == get(entry, "link", "No link")
             summary == get(entry, "summary", NoSummary)
             published_date == parse_published(entry)
             full_text == IF link # "No link" THEN extract_full_text_once(Pages[link])
                          ELSE Unavailable
         IN  (IF published_date.ok /\ ~too_old(published_date.t, cutoff_date)
                 /\ keyword_filter_exp(title, summary, full_text)
              THEN <<[title |-> title, link |-> link,
                      published_date |-> strftime(published_date.t),
                      summary |-> summary, full_text |-> full_text]>>
              ELSE <<>>)
             \o exp_entries(Tail(entries), cutoff_date)

\* fetch_feed(feed_name, feed_url) of exp_rss.py: None when feedparser.parse
\* raises or no entry is kept; a bozo feed only prints a warning
exp_fetch_feed(feed, today) ==
    IF feed.status = "down" \/ exp_entries(feed.entries, today - DAYS_LIMIT) = <<>>
    THEN None
    ELSE [entries |-> exp_entries(feed.entries, today - DAYS_LIMIT)]

\* exp_rss.py fetches one feed
ExpFetchFeed ==
    /\ calc = [done |-> {}]
    /\ \E f \in DOMAIN web.feeds, d \in ClockReads :
          /\ now' = now + d
          /\ calc' = [done |-> {"fetch_feed"}, feed |-> f, cutoff_date |-> now + d - DAYS_LIMIT,
                      feed_data |-> exp_fetch_feed(web.feeds[f], now + d)]
    /\ UNCHANGED <<store, columns, web, once_pc, once_run, once_feed, once_entries,
                   once_cutoff, pool_pc, pool_cycle, queue, task, dash_pc, view, flt,
                   hist>>

(***************************************************************************)
(* fetch_feed.py: fetch_feed                                               *)
(***************************************************************************)
max_entries == 5

\* the loop  for entry in feed.entries[:max_entries]  of fetch_feed.py
RECURSIVE entry_data(_)
entry_data(entries) ==
    IF entries = <<>> THEN <<>>
    ELSE <<[title |-> get(Head(entries), "title", NoTitle),
            link |-> get(Head(entries), "link", "No link"),
            summary |-> get(Head(entries), "summary", NoSummary)]>>
         \o entry_data(Tail(entries))

\* fetch_feed(feed_name, feed_url) of fetch_feed.py: feedparser.parse is not
\* guarded; a bozo feed only prints a warning
fetch_feed_py(feed) ==
    IF feed.status = "down" THEN [raised |-> TRUE, entries |-> <<>>]
    ELSE [raised |-> FALSE, entries |-> entry_data(Take(feed.entries, max_entries))]

\* fetch_feed.py fetches one feed
ListFetchFeed ==
    /\ calc = [done |-> {}]
    /\ \E f \in DOMAIN web.feeds :
          calc' = [done |-> {"list_feed"}, feed |-> f,
                   feed_data |-> fetch_feed_py(web.feeds[f])]
    /\ UNCHANGED <<store, columns, now, web, once_pc, once_run, once_feed, once_entries,
                   once_cutoff, pool_pc, pool_cycle, queue, task, dash_pc, view, flt,
                   hist>>

(***************************************************************************)
(* The helper functions on their own                                       *)
(***************************************************************************)
MaxCalls == 2        \* calls of calculate_heat_score on the same arguments

\* responses of requests.get(url): the request raises (0), pages, error statuses
Responses == {[status |-> 0, text |-> <<>>], [status |-> 200, text |-> P_AITools],
              [status |-> 200, text |-> <<>>], [status |-> 404, text |-> <<>>],
              [status |-> 500, text |-> P_SomeWords]}

\* article texts with both innovation indicators, with one (in capitals), with
\* none and with other indicators
ScoreTexts == {P_Report, P_SomeWords, P_Latest, P_NovelRig}

\* published_date strings: in strftime's form for a day in the future, today, ten
\* days, thirty-one days and a year ago, and two forms strptime rejects
ScoreDates == {strftime(Now0 + 5), strftime(Now0), strftime(Now0 - 10),
               strftime(Now0 - 31), strftime(Now0 - 365), isoformat(Now0),
               [fmt |-> "none", t |-> 0]}

\* extract_full_text(url) of each variant
CalcExtract ==
    /\ "response" \in DOMAIN calc /\ "extract" \notin calc.done
    /\ calc' = [calc EXCEPT !.done = @ \cup {"extract"},
                            !.extracted_once = extract_call_once(calc.response),
                            !.extracted = extract_call(calc.response)]
    /\ UNCHANGED <<store, columns, now, web, once_pc, once_run, once_feed, once_entries,
                   once_cutoff, pool_pc, pool_cycle, queue, task, dash_pc, view, flt,
                   hist>>

\* get_llm_summary(text)
CalcSummary ==
    /\ "output" \in DOMAIN calc /\ "summary" \notin calc.done
    /\ calc' = [calc EXCEPT !.done = @ \cup {"summary"},
                            !.llm = get_llm_summary_call(calc.output)]
    /\ UNCHANGED <<store, columns, now, web, once_pc, once_run, once_feed, once_entries,
                   once_cutoff, pool_pc, pool_cycle, queue, task, dash_pc, view, flt,
                   hist>>

\* calculate_novelty_score(text) and calculate_heat_score(text, published_date),
\* called again on the same arguments at the same time
CalcScores ==
    /\ "text" \in DOMAIN calc /\ calc.score_calls < MaxCalls
    /\ calc' = [calc EXCEPT !.done = @ \cup {"scores"},
                            !.score_calls = @ + 1,
                            !.novelty = @ \cup {calculate_novelty_score(calc.text)},
                            !.heat = @ \cup {calculate_heat_score(calc.text, calc.published,
                                                                  now)}]
    /\ UNCHANGED <<store, columns, now, web, once_pc, once_run, once_feed, once_entries,
                   once_cutoff, pool_pc, pool_cycle, queue, task, dash_pc, view, flt,
                   hist>>

CalcNext == CalcExtract \/ CalcSummary \/ CalcScores

\* Article objects with every field populated
Articles ==
    [title : {T_OilRig, T_NewPump}, link : {"u1", "u2"}, snippet : {L_Summary},
     relevance_score : {85}, published_date : {strftime(Now0)},
     source : {FEEDS[1], "arXiv"}, full_text : {P_Report}, locations : {"Norway"},
     novelty_score : {100}, heat_score : {30, 100}]

\* DatabaseManager().insert_article(article) for the next article at hand; fresh
\* collects the articles whose link had no row when they were inserted
DbInsert ==
    /\ "pending" \in DOMAIN calc /\ calc.pending # <<>>
    /\ columns' = create_table_if_not_exists(columns, ColumnsFull)
    /\ ~insert_article_raises(columns')
    /\ store' = insert_article(store, columns', Head(calc.pending))
    /\ calc' = [calc EXCEPT !.pending = Tail(@),
                            !.fresh = IF \E i \in 1..Len(store) :
                                            store[i].link = Head(calc.pending).link
                                      THEN @ ELSE @ \cup {Head(calc.pending)}]
    /\ UNCHANGED <<now, web, once_pc, once_run, once_feed, once_entries, once_cutoff,
                   pool_pc, pool_cycle, queue, task, dash_pc, view, flt, hist>>

RoundNext == DbInsert \/ DashSetup \/ DashQuery(DefaultQueries)

(***************************************************************************)
(* LLM_Summary.py: text chunking                                           *)
(***************************************************************************)
MaxWords == 4        \* words in a text handed to chunk_text
MaxTokens == 3       \* largest max_tokens

\* str.split() without arguments: the maximal runs of non-whitespace
RECURSIVE split_ws(_)
split_ws(s) ==
    IF s = <<>> THEN <<>>
    ELSE IF IsSpace(Head(s)) THEN split_ws(Tail(s))
    ELSE LET n == CHOOSE k \in 1..Len(s) :
                      /\ \A i \in 1..k : ~IsSpace(s[i])
                      /\ k = Len(s) \/ IsSpace(s[k + 1])
         IN  <<SubSeq(s, 1, n)>> \o split_ws(SubSeq(s, n + 1, Len(s)))

\* " ".join(words)
RECURSIVE join_space(_)
join_space(words) ==
    IF words = <<>> THEN <<>>
    ELSE IF Len(words) = 1 THEN Head(words)
    ELSE Head(words) \o <<" ">> \o join_space(Tail(words))

\* the loop  for word in words  of chunk_text and the statement after it;
\* current_count is the length of current_chunk
RECURSIVE chunk_loop(_, _, _, _)
chunk_loop(words, max_tokens, current_chunk, chunks) ==
    IF words = <<>>
    THEN IF current_chunk # <<>> THEN Append(chunks, join_space(current_chunk))
         ELSE chunks
    ELSE LET appended == Append(current_chunk, Head(words))
         IN  IF Len(appended) >= max_tokens
             THEN chunk_loop(Tail(words), max_tokens, <<>>,
                             Append(chunks, join_space(appended)))
             ELSE chunk_loop(Tail(words), max_tokens, appended, chunks)

\* variant: the leftover words after the last full chunk are dropped
chunk_text_full_only(text, max_tokens) ==
    LET all == chunk_loop(split_ws(text), max_tokens, <<>>, <<>>)
    IN  IF Len(split_ws(text)) % max_tokens # 0 THEN SubSeq(all, 1, Len(all) - 1)
        ELSE all

\* chunk_text(text, max_tokens=300)
chunk_text(text, max_tokens) == chunk_loop(split_ws(text), max_tokens, <<>>, <<>>)

\* words joined by a given run of whitespace
RECURSIVE Spaced(_, _)
Spaced(words, sep) ==
    IF words = <<>> THEN <<>>
    ELSE IF Len(words) = 1 THEN Head(words)
    ELSE Head(words) \o sep \o Spaced(Tail(words), sep)

ChunkWords == {<<"a">>, <<"b","c">>}

\* up to MaxWords words separated by a space or by a line break and a space,
\* also with whitespace before the first and after the last word
ChunkTexts ==
    {Spaced(ws, sep) : ws \in SeqsUpTo(ChunkWords, MaxWords),
                       sep \in {<<" ">>, <<"\n"," ">>}}
    \cup {<<" ">> \o Spaced(ws, <<" ">>) \o <<"\n">> : ws \in SeqsUpTo(ChunkWords, MaxWords)}

\* chunks = chunk_text(text, max_tokens)
CalcChunk ==
    /\ "max_tokens" \in DOMAIN calc /\ "chunks" \notin calc.done
    /\ calc' = [calc EXCEPT !.done = @ \cup {"chunks"},
                            !.chunks = chunk_text(calc.text, calc.max_tokens)]
    /\ UNCHANGED <<store, columns, now, web, once_pc, once_run, once_feed, once_entries,
                   once_cutoff, pool_pc, pool_cycle, queue, task, dash_pc, view, flt,
                   hist>>

(***************************************************************************)
(* Failures and stops of the fetchers                                      *)
(***************************************************************************)
\* an exception inside the loop over feed.entries of fetch_rss_feeds: the
\* feed's except clause prints it and the loop over FEEDS goes on
OnceFeedFails ==
    /\ once_pc = "rss_entry"
    /\ once_entries' = <<>>
    /\ once_pc' = once_after_feed
    /\ once_feed' = IF once_feed < Len(FEEDS) THEN once_feed + 1 ELSE once_feed
    /\ UNCHANGED <<store, columns, now, web, once_run, once_cutoff, pool_pc, pool_cycle,
                   queue, task, dash_pc, view, flt, calc, hist>>

\* the run-once fetcher's process ends where it is (an exception nothing
\* catches, an interrupt, a kill)
OnceStops ==
    /\ once_pc \notin {"idle", "done"}
    /\ once_entries' = <<>>
    /\ once_pc' = "done"
    /\ UNCHANGED <<store, columns, now, web, once_run, once_feed, once_cutoff, pool_pc,
                   pool_cycle, queue, task, dash_pc, view, flt, calc, hist>>

\* an exception inside fetch_feed(name, url): its except clause logs it and
\* the task ends
TaskFails(f) ==
    /\ task[f].pc \in {"check", "process", "insert"}
    /\ task' = [task EXCEPT ![f] = [NoTask EXCEPT !.pc = "done"]]
    /\ UNCHANGED <<store, columns, now, web, once_pc, once_run, once_feed, once_entries,
                   once_cutoff, pool_pc, pool_cycle, queue, dash_pc, view, flt, calc, hist>>

\* the pool fetcher's process ends where it is, with all its threads
PoolStops ==
    /\ pool_pc # "idle"
    /\ pool_pc' = "idle"
    /\ queue' = <<>>
    /\ task' = [f \in PoolFeeds |-> NoTask]
    /\ UNCHANGED <<store, columns, now, web, once_pc, once_run, once_feed, once_entries,
                   once_cutoff, pool_cycle, dash_pc, view, flt, calc, hist>>

\* each fetcher on a database file of its own, failing or stopping anywhere
StopNext ==
    \/ pool_pc = "idle" /\ pool_cycle = 0 /\ (OnceNext \/ OnceFeedFails \/ OnceStops)
    \/ once_pc = "idle" /\ (PoolNext \/ PoolStops \/ \E f \in PoolFeeds : TaskFails(f))

(***************************************************************************)
(* The dashboard over rows of both writers                                 *)
(***************************************************************************)
\* published_date.strftime("%Y-%m-%d %H:%M:%S") of a time with an hour
strftime_at(t, h) == [fmt |-> "sql", t |-> t, h |-> h]

\* entry.updated as the arXiv feed gives it ('YYYY-MM-DDTHH:MM:SSZ')
updated_at(t, h) == [fmt |-> "iso", t |-> t, h |-> h]

\* articles of the pool fetcher: no two of the four orders list them alike
SortArticles == {
    [title |-> T_OilRig, link |-> "u1", snippet |-> L_Summary, relevance_score |-> 85,
     published_date |-> strftime_at(Now0, 10), source |-> FEEDS[1],
     full_text |-> P_Report, locations |-> "Norway", novelty_score |-> 0,
     heat_score |-> 100],
    [title |-> T_NewPump, link |-> "u2", snippet |-> L_Summary, relevance_score |-> 0,
     published_date |-> strftime_at(Now0 - 1, 10), source |-> FEEDS[2],
     full_text |-> P_Latest, locations |-> "Norway", novelty_score |-> 100,
     heat_score |-> 30],
    [title |-> T_RigSold, link |-> "u3", snippet |-> L_Summary, relevance_score |-> 40,
     published_date |-> strftime_at(Now0, 8), source |-> FEEDS[1],
     full_text |-> P_Latest, locations |-> "Norway", novelty_score |-> 100,
     heat_score |-> 60] }

\* arguments of the run-once fetcher's insert_article: an arXiv entry updated
\* an hour before the first article above was published, and one of the day before
SortOnceArticles == {
    [title |-> T_FlowModel, link |-> "arx1", snippet |-> S_OilFlow,
     published_date |-> updated_at(Now0, 9), source |-> "arXiv", full_text |-> <<>>],
    [title |-> T_FlowModel, link |-> "arx2", snippet |-> S_OilFlow,
     published_date |-> updated_at(Now0 - 1, 23), source |-> "arXiv",
     full_text |-> <<>>] }

\* integrated-fetcher.py insert_article(...) for the next entry at hand, on a
\* table that exists
OnceInsert ==
    /\ "once_pending" \in DOMAIN calc /\ calc.once_pending # <<>>
    /\ ColumnsOnce \subseteq columns
    /\ LET a == Head(calc.once_pending)
       IN  store' = insert_article_once(store, columns, a.title, a.link, a.snippet,
                                        a.published_date, a.source, a.full_text)
    /\ calc' = [calc EXCEPT !.once_pending = Tail(@)]
    /\ UNCHANGED <<columns, now, web, once_pc, once_run, once_feed, once_entries,
                   once_cutoff, pool_pc, pool_cycle, queue, task, dash_pc, view, flt,
                   hist>>

\* the keys of order_mapping
OrderMapping == {"date", "relevance", "novelty", "heat"}

\* get_articles called with each key of order_mapping and with a key it lacks
SortQueries == [search_query : {<<>>}, source_filter : {"All", "RSS"},
                category : {"All"}, sort_by : OrderMapping \cup {"title"}]

SortNext == DbInsert \/ OnceInsert \/ DashSetup \/ DashQuery(SortQueries)

(***************************************************************************)
(* Initial states                                                          *)
(***************************************************************************)
NoHistory == [once_added |-> 0, pool_added |-> 0, wrote |-> NoEntry, ignored |-> {},
              first |-> {}, lost |-> {}, raised |-> {}, once_tried |-> <<>>,
              pool_tried |-> [f \in FeedNames |-> 0]]
NoView == [called |-> FALSE, raised |-> FALSE, search_query |-> <<>>,
           source_filter |-> "All", category |-> "All", sort_by |-> "date",
           rows |-> <<>>, seen |-> 0, surfaced |-> "none"]
NoCalc == [done |-> {}]
NoFilter == [applied |-> FALSE, title |-> <<>>, summary |-> <<>>, full_text |-> <<>>,
             accepted |-> FALSE, accepted_exp |-> FALSE]

InitWith(w) ==
    /\ store = <<>>
    /\ columns = {}
    /\ now = Now0
    /\ web = w
    /\ once_pc = "idle"
    /\ once_run = 0
    /\ once_feed = 1
    /\ once_entries = <<>>
    /\ once_cutoff = 0
    /\ pool_pc = "idle"
    /\ pool_cycle = 0
    /\ queue = <<>>
    /\ task = [f \in DOMAIN w.feeds |-> NoTask]
    /\ dash_pc = "idle"
    /\ view = NoView
    /\ flt = NoFilter
    /\ calc = NoCalc
    /\ hist = [NoHistory EXCEPT !.pool_tried = [f \in DOMAIN w.feeds |-> 0]]

\* every feed content up to MaxEntries entries for the first feed, up to one
\* entry for the second, every arXiv answer
OnceWebs ==
    {[feeds |-> [f \in {FEEDS[i] : i \in 1..Len(FEEDS)} |->
                    IF f = FEEDS[1] THEN f1 ELSE f2],
      arxiv |-> a, llm |-> PlainOutputs] :
        f1 \in FeedStates(MaxEntries), f2 \in FeedStates(1), a \in ArxivStates}

InitOnce == \E w \in OnceWebs : InitWith(w)

\* the run-once fetcher alone, run MaxRuns times over an unchanged web
SpecOnce == InitOnce /\ [][OnceNext]_vars


\* the entries that carry a summary and a date
PoolEntries == {e \in EntryPool : {"summary", "published_parsed"} \subseteq DOMAIN e}

\* the feeds alone (fetcher.py does not read arXiv)
PoolWebs ==
    {[feeds |-> [f \in FeedNames |-> IF f = FEEDS[1] THEN f1 ELSE f2],
      arxiv |-> [status |-> 503, entries |-> <<>>], llm |-> PlainOutputs] :
        f1 \in FeedStatesOf(PoolEntries, MaxEntries), f2 \in FeedStatesOf(PoolEntries, 1)}

InitPool == \E w \in PoolWebs : InitWith(w)

\* the worker-pool fetcher alone, MaxCycles cycles over an unchanged web
SpecPool == InitPool /\ [][PoolNext]_vars


InitFilter ==
    /\ store = <<>>
    /\ columns = {}
    /\ now = Now0
    /\ web = [feeds |-> [f \in FeedNames |-> [status |-> "down", entries |-> <<>>]],
              arxiv |-> [status |-> 503, entries |-> <<>>], llm |-> PlainOutputs]
    /\ once_pc = "idle" /\ once_run = 0 /\ once_feed = 1 /\ once_entries = <<>>
    /\ once_cutoff = 0
    /\ pool_pc = "idle" /\ pool_cycle = 0 /\ queue = <<>>
    /\ task = [f \in FeedNames |-> NoTask]
    /\ dash_pc = "idle" /\ view = NoView
    /\ calc = NoCalc
    /\ hist = NoHistory
    /\ \E t \in FilterTitles, s \in FilterSummaries, x \in FilterTexts :
          flt = [NoFilter EXCEPT !.title = t, !.summary = s, !.full_text = x]

\* the keyword filter applied to every combination of title, summary and text
SpecFilter == InitFilter /\ [][ApplyFilter]_vars

InitCalc ==
    /\ store = <<>>
    /\ columns = {}
    /\ now = Now0
    /\ web = [feeds |-> [f \in FeedNames |-> [status |-> "down", entries |-> <<>>]],
              arxiv |-> [status |-> 503, entries |-> <<>>], llm |-> PlainOutputs]
    /\ once_pc = "idle" /\ once_run = 0 /\ once_feed = 1 /\ once_entries = <<>>
    /\ once_cutoff = 0
    /\ pool_pc = "idle" /\ pool_cycle = 0 /\ queue = <<>>
    /\ task = [f \in FeedNames |-> NoTask]
    /\ dash_pc = "idle" /\ view = NoView
    /\ flt = NoFilter
    /\ hist = NoHistory
    /\ \E r \in Responses, x \in ScoreTexts, d \in ScoreDates, o \in LLMOutputs :
          calc = [done |-> {}, response |-> r, text |-> x, published |-> d, output |-> o,
                  extracted_once |-> [raised |-> FALSE, text |-> <<>>],
                  extracted |-> [raised |-> FALSE, text |-> <<>>],
                  llm |-> [raised |-> FALSE, summary |-> <<>>, relevance |-> 0],
                  score_calls |-> 0, novelty |-> {}, heat |-> {}]

\* each helper function applied to every combination of the inputs
SpecCalc == InitCalc /\ [][CalcNext]_vars

InitRound ==
    /\ store = <<>>
    /\ columns = {}
    /\ now = Now0
    /\ web = [feeds |-> [f \in FeedNames |-> [status |-> "down", entries |-> <<>>]],
              arxiv |-> [status |-> 503, entries |-> <<>>], llm |-> PlainOutputs]
    /\ once_pc = "idle" /\ once_run = 0 /\ once_feed = 1 /\ once_entries = <<>>
    /\ once_cutoff = 0
    /\ pool_pc = "idle" /\ pool_cycle = 0 /\ queue = <<>>
    /\ task = [f \in FeedNames |-> NoTask]
    /\ dash_pc = "idle" /\ view = NoView
    /\ flt = NoFilter
    /\ hist = NoHistory
    /\ \E articles \in [1..MaxCalls -> Articles] :
          calc = [done |-> {}, pending |-> articles, fresh |-> {}]

\* insert_article called on up to MaxCalls articles, and the dashboard reading
SpecRound == InitRound /\ [][RoundNext]_vars

\* two entries with a link of their own, a summary and today's date
StopEntries == {e \in PoolEntries : "link" \in DOMAIN e /\ e.title # T_RigSold}

StopWebs ==
    {[feeds |-> [f \in FeedNames |-> IF f = FEEDS[1] THEN f1 ELSE f2],
      arxiv |-> a, llm |-> PlainOutputs] :
        f1 \in FeedStatesOf(StopEntries, MaxEntries),
        f2 \in FeedStatesOf(StopEntries, 0),
        a \in {x \in ArxivStates : \A k \in 1..Len(x.entries) : x.entries[k].title = T_FlowModel}}

InitStop == \E w \in StopWebs : InitWith(w)

\* either fetcher alone, with failures inside a feed and stops of the process
SpecStop == InitStop /\ [][StopNext]_vars

InitChunk ==
    /\ store = <<>>
    /\ columns = {}
    /\ now = Now0
    /\ web = [feeds |-> [f \in FeedNames |-> [status |-> "down", entries |-> <<>>]],
              arxiv |-> [status |-> 503, entries |-> <<>>], llm |-> PlainOutputs]
    /\ once_pc = "idle" /\ once_run = 0 /\ once_feed = 1 /\ once_entries = <<>>
    /\ once_cutoff = 0
    /\ pool_pc = "idle" /\ pool_cycle = 0 /\ queue = <<>>
    /\ task = [f \in FeedNames |-> NoTask]
    /\ dash_pc = "idle" /\ view = NoView
    /\ flt = NoFilter
    /\ hist = NoHistory
    /\ \E x \in ChunkTexts, n \in 1..MaxTokens :
          calc = [done |-> {}, text |-> x, max_tokens |-> n, chunks |-> <<>>]

\* chunk_text applied to every text and chunk size
SpecChunk == InitChunk /\ [][CalcChunk]_vars

InitSort ==
    /\ store = <<>>
    /\ columns = {}
    /\ now = Now0
    /\ web = [feeds |-> [f \in FeedNames |-> [status |-> "down", entries |-> <<>>]],
              arxiv |-> [status |-> 503, entries |-> <<>>], llm |-> PlainOutputs]
    /\ once_pc = "idle" /\ once_run = 0 /\ once_feed = 1 /\ once_entries = <<>>
    /\ once_cutoff = 0
    /\ pool_pc = "idle" /\ pool_cycle = 0 /\ queue = <<>>
    /\ task = [f \in FeedNames |-> NoTask]
    /\ dash_pc = "idle" /\ view = NoView
    /\ flt = NoFilter
    /\ hist = NoHistory
    /\ \E articles \in [1..MaxCalls -> SortArticles], a \in SortOnceArticles :
          calc = [done |-> {}, pending |-> articles, fresh |-> {},
                  once_pending |-> <<a>>]

\* both writers' insert_article on a few articles, and get_articles in each order
SpecSort == InitSort /\ [][SortNext]_vars

\* entries with a link: dated today, dated DAYS_LIMIT days before the first run,
\* and without a date
DatedEntries ==
    {e \in EntryPool : "link" \in DOMAIN e /\ (e.title = T_RigSold \/ e.link # "u1")}

\* the first feed has up to MaxEntries of them or is flagged bozo, the second is
\* flagged bozo or cannot be fetched, arXiv answers with one entry or fails
DateWebs ==
    {[feeds |-> [f \in FeedNames |-> IF f = FEEDS[1] THEN f1 ELSE f2],
      arxiv |-> a, llm |-> PlainOutputs] :
        f1 \in FeedStatesOf(DatedEntries, MaxEntries),
        f2 \in FeedStatesOf(DatedEntries, 0),
        a \in {x \in ArxivStates : \A k \in 1..Len(x.entries) : x.entries[k].title = T_FlowModel}}

InitDates == \E w \in DateWebs : InitWith(w)

\* each program on a database file of its own
NextDates ==
    \/ pool_pc = "idle" /\ calc = NoCalc /\ OnceNext
    \/ once_pc = "idle" /\ calc = NoCalc /\ PoolNext
    \/ once_pc = "idle" /\ pool_pc = "idle" /\ (ExpFetchFeed \/ ListFetchFeed)

\* the four programs that read feeds, each alone, over feeds with old and
\* undated entries
SpecDates == InitDates /\ [][NextDates]_vars

\* an entry whose page has a keyword, and an entry dated a day ahead of the first
\* run whose page has trending indicators
ScoreEntries ==
    {[title |-> T_OilRig, link |-> "u1", summary |-> S_BigDeal, published_parsed |-> Now0],
     [title |-> T_FlowModel, link |-> "u4", summary |-> S_OilFlow,
      published_parsed |-> Now0 + 1]}

\* the first feed has up to MaxEntries of them, the second is empty or cannot be
\* fetched, and the summariser may print anything of LLMOutputs
ScoreWebs ==
    {[feeds |-> [f \in FeedNames |-> IF f = FEEDS[1] THEN f1 ELSE f2],
      arxiv |-> [status |-> 503, entries |-> <<>>], llm |-> LLMOutputs] :
        f1 \in FeedStatesOf(ScoreEntries, MaxEntries),
        f2 \in FeedStatesOf(ScoreEntries, 0)}

InitScores == \E w \in ScoreWebs : InitWith(w)

\* the worker-pool fetcher with a summariser that prints every kind of output
SpecScores == InitScores /\ [][PoolNext]_vars

\* six feeds for the MAX_WORKERS threads: the first has up to MaxEntries entries,
\* the others cannot be fetched
ManyWebs ==
    {[feeds |-> [f \in {FETCHER_FEEDS[i] : i \in 1..MAX_WORKERS + 1} |->
                    IF f = FETCHER_FEEDS[1] THEN f1
                    ELSE [status |-> "down", entries |-> <<>>]],
      arxiv |-> [status |-> 503, entries |-> <<>>], llm |-> PlainOutputs] :
        f1 \in FeedStatesOf(ScoreEntries, MaxEntries)}

InitMany == \E w \in ManyWebs : InitWith(w)

\* the worker-pool fetcher with more feeds than threads
SpecMany == InitMany /\ [][PoolNext]_vars

\* two webs in which the feeds share a link and arXiv answers
Scenarios ==
    {w \in OnceWebs :
        /\ w.feeds[FEEDS[1]].status = "ok" /\ Len(w.feeds[FEEDS[1]].entries) = 2
        /\ w.feeds[FEEDS[1]].entries[1].title = T_OilRig
        /\ "summary" \in DOMAIN w.feeds[FEEDS[1]].entries[1]
        /\ get(w.feeds[FEEDS[1]].entries[1], "link", "") = "u1"
        /\ w.feeds[FEEDS[1]].entries[2].title = T_NewPump
        /\ w.feeds[FEEDS[2]].status = "ok" /\ Len(w.feeds[FEEDS[2]].entries) = 1
        /\ w.feeds[FEEDS[2]].entries[1].title = T_RigSold
        /\ w.arxiv.status = 200 /\ Len(w.arxiv.entries) = 1
        /\ "link" \in DOMAIN w.arxiv.entries[1]}

Init == \E w \in Scenarios : InitWith(w)

Next == OnceNext \/ DashSetup \/ DashQuery(Queries)

\* the run-once fetcher and the dashboard, with every query, on one database file
Spec == Init /\ [][Next]_vars

NextAll == OnceNext \/ PoolNext \/ DashSetup \/ DashQuery(DefaultQueries)

\* webs in which each feed has one entry, both under the same link
SharedLinkWebs ==
    {w \in OnceWebs :
        /\ \A f \in FeedNames :
              /\ w.feeds[f].status = "ok" /\ Len(w.feeds[f].entries) = 1
              /\ get(w.feeds[f].entries[1], "link", "") = "u1"
        /\ w.feeds[FEEDS[1]].entries[1].title = T_OilRig
        /\ w.feeds[FEEDS[2]].entries[1].title = T_RigSold
        /\ w.arxiv.status = 200 /\ Len(w.arxiv.entries) = 1
        /\ get(w.arxiv.entries[1], "link", "") = "arx1"}

InitAll == \E w \in SharedLinkWebs : InitWith(w)

\* both fetchers and the dashboard (its opening view) on one database file
SpecAll == InitAll /\ [][NextAll]_vars

(***************************************************************************)
(* Properties                                                              *)
(***************************************************************************)
\* the rows of the table that carry link l
RowsOf(l) == {i \in 1..Len(store) : store[i].link = l}

\* C1: in every reachable state of the store, whatever fetchers and pool threads
\* have inserted, no two rows have the same link
C1_LinkUnique ==
    \A i, j \in 1..Len(store) : store[i].link = store[j].link => i = j

\* C1 witness: both fetchers have inserted under a link that was taken, and the
\* table holds rows of both
C1_Witness ==
    /\ \E x, y \in hist.ignored : x.by = "rss" /\ y.by = "pool"
    /\ \E i, j \in 1..Len(store) : store[i].source = "arXiv" /\ store[j].source # "arXiv"

\* a pool thread's insert_article call returns or raises in this step, for an
\* article whose link has a row
PoolDuplicateInsert(f) ==
    /\ task[f].pc = "insert" /\ task'[f].pc # "insert"
    /\ RowsOf(task[f].article.link) # {}

\* the run-once fetcher calls insert_article in this step for a link that has a row
OnceDuplicateInsert ==
    \/ /\ once_pc = "rss_entry" /\ once_entries' = Tail(once_entries)
       /\ hist'.ignored # hist.ignored
    \/ /\ once_pc = "arxiv_entry" /\ once_entries' = Tail(once_entries)
       /\ RowsOf(get(Head(once_entries), "link", "")) # {}

\* C2: insert_article called with a link that already has a row leaves the store
\* unchanged (the row keeps its title and every other field, no row is added) and
\* raises no error, in either fetcher
C2_DuplicateInsertSilent ==
    [][/\ OnceDuplicateInsert => store' = store
       /\ \A f \in FeedNames :
             PoolDuplicateInsert(f) => store' = store /\ hist'.raised = hist.raised]_vars

\* C3: of two runs of a fetcher over an unchanged feed, the second inserts zero
\* new rows (a run of the run-once fetcher, a cycle of the worker-pool fetcher)
C3_SecondRunAddsNothing ==
    /\ once_run >= 2 => hist.once_added = 0
    /\ pool_cycle >= 2 => hist.pool_added = 0

\* C3 witness: the second run and the second cycle have ended, over feeds whose
\* entries the first ones stored
C3_Witness ==
    /\ once_run = 2 /\ once_pc = "done"
    /\ pool_cycle = 2 /\ pool_pc = "collect" /\ hist.raised = {}
    /\ Len(store) >= 2

\* the one row of a link on which two pool threads raced holds what the first
\* insert_article call for that link passed
RaceKeepsFirst ==
    \A r \in hist.lost :
        /\ Cardinality(RowsOf(r.link)) = 1
        /\ \A i \in RowsOf(r.link) : \E w \in hist.first :
              /\ w.link = r.link
              /\ store[i].title = w.title /\ store[i].source = w.source
              /\ store[i].snippet = w.snippet
              /\ store[i].relevance_score = w.relevance_score

\* an insert_article call of a pool thread returns without raising and the thread
\* goes on with the entries after this one; a call for a taken link changes no row
InsertThenContinue ==
    \A f \in FeedNames :
        task[f].pc = "insert" /\ task'[f].pc # "insert" =>
            /\ hist'.raised = hist.raised
            /\ task'[f].entries = Tail(task[f].entries)
            /\ task'[f].pc = IF Tail(task[f].entries) = <<>> THEN "done" ELSE "check"
            /\ RowsOf(task[f].article.link) # {} => store' = store

\* C4: when two workers of the pool race on one link (both pass article_exists
\* before either inserts), exactly one row for the link is stored, it holds the
\* values of the insert that ran first, the losing insert is ignored without
\* raising, and both workers go on with their remaining entries
C4_RaceIsHarmless == []RaceKeepsFirst /\ [][InsertThenContinue]_vars

\* C4 witness: a worker lost the race with entries left, went on, and finished
\* after storing a later entry
C4_Witness ==
    \E r \in hist.lost :
        /\ r.left > 0
        /\ task[r.feed].pc = "done"
        /\ pool_cycle = 1 /\ Len(store) >= 2

\* the link of the entry a pool thread is at
LinkAt(f) == get(Head(task[f].entries), "link", "")

\* C5 as stated: once a link has a row, no later handling of an entry with that
\* link performs the scrape, the summarisation or the scoring for it again
C5_NeverReprocessed ==
    [][\A f \in FeedNames :
          task[f].pc = "process" /\ task'[f].pc = "insert" => RowsOf(LinkAt(f)) = {}]_vars

\* C5 amended: in the worker-pool fetcher an entry whose link has a row when
\* process_entry checks article_exists is skipped: no scrape, no summariser
\* call (no clock read), no scoring, no insert, and the thread moves to the next
\* entry
C5_ExistingLinkSkipped ==
    [][\A f \in FeedNames :
          task[f].pc = "check" /\ task'[f] # task[f] /\ RowsOf(LinkAt(f)) # {} =>
              /\ task'[f].pc \in {"check", "done"}
              /\ task'[f].entries = Tail(task[f].entries)
              /\ task'[f].article = None
              /\ now' = now /\ store' = store]_vars

\* C5 witness: in a later cycle a thread has gone through a feed whose links all
\* have rows and has added nothing
C5_Witness ==
    \E f \in FeedNames :
        /\ pool_cycle = 2 /\ task[f].pc = "done" /\ hist.pool_added = 0
        /\ web.feeds[f].status = "ok" /\ Len(web.feeds[f].entries) = 2
        /\ \A i \in 1..2 : RowsOf(get(web.feeds[f].entries[i], "link", "")) # {}

\* some configured keyword occurs, whatever the case of its letters, in the
\* title, the summary and the full text written one after the other with a
\* space between
HasKeyword(title, summary, full_text) ==
    LET text == lower(title \o <<" ">> \o summary \o <<" ">> \o full_text)
    IN  \E k \in 1..Len(TECHNOLOGY_KEYWORDS) :
           LET kw == lower(TECHNOLOGY_KEYWORDS[k])
           IN  \E i \in 0..(Len(text) - Len(kw)) :
                  \A j \in 1..Len(kw) : text[i + j] = kw[j]

\* C6 as stated: every row written to the store, whichever source and variant
\* produced it, is of an entry whose title, summary and full text contain a
\* configured keyword
C6_EveryRowFiltered ==
    hist.wrote.by # "none" =>
        HasKeyword(hist.wrote.title, hist.wrote.summary, hist.wrote.full_text)

\* C6 amended: every row written by fetch_rss_feeds of the run-once fetcher is
\* of an entry whose title, summary and full text contain a configured keyword
C6_RssRowFiltered ==
    hist.wrote.by = "rss" =>
        HasKeyword(hist.wrote.title, hist.wrote.summary, hist.wrote.full_text)

\* C6 witness: a run has ended in which fetch_rss_feeds stored an entry and
\* discarded a dated, recent entry with a link for want of a keyword
C6_Witness ==
    /\ once_pc = "done"
    /\ \E i \in 1..Len(store) : store[i].source \in FeedNames
    /\ \E f \in FeedNames : \E i \in 1..Len(web.feeds[f].entries) :
          LET e == web.feeds[f].entries[i]
          IN  /\ web.feeds[f].status = "ok"
              /\ {"link", "summary", "published_parsed"} \subseteq DOMAIN e
              /\ e.published_parsed >= once_cutoff
              /\ RowsOf(e.link) = {}

\* HasKeyword on the text in which every run of whitespace has become one space
HasKeywordCollapsed(title, summary, full_text) ==
    LET text == collapse_ws(lower(title \o <<" ">> \o summary \o <<" ">> \o full_text))
    IN  \E k \in 1..Len(TECHNOLOGY_KEYWORDS) :
           LET kw == lower(TECHNOLOGY_KEYWORDS[k])
           IN  \E i \in 0..(Len(text) - Len(kw)) :
                  \A j \in 1..Len(kw) : text[i + j] = kw[j]

\* C7 as stated: the keyword filter (of integrated-fetcher.py and of exp_rss.py)
\* accepts an entry if and only if a keyword of TECHNOLOGY_KEYWORDS occurs,
\* compared case-insensitively, as a substring of the concatenation of the
\* entry's title, summary and full text
C7_FilterIsSubstringTest ==
    flt.applied =>
        /\ flt.accepted <=> HasKeyword(flt.title, flt.summary, flt.full_text)
        /\ flt.accepted_exp <=> HasKeyword(flt.title, flt.summary, flt.full_text)

\* C7 amended: integrated-fetcher.py accepts an entry if and only if a keyword
\* occurs, compared case-insensitively, in "title summary full_text"; exp_rss.py
\* accepts if and only if a keyword occurs in that string after every run of
\* whitespace in it has been replaced by one space
C7_FilterModuloWhitespace ==
    flt.applied =>
        /\ flt.accepted <=> HasKeyword(flt.title, flt.summary, flt.full_text)
        /\ flt.accepted_exp <=> HasKeywordCollapsed(flt.title, flt.summary, flt.full_text)

\* C7 witness: an entry whose only keyword is split by a tab is accepted by
\* exp_rss.py and rejected by integrated-fetcher.py
C7_Witness == flt.applied /\ flt.accepted_exp /\ ~flt.accepted

\* C8: once a row is inserted, no step of a fetch run or cycle and no dashboard
\* operation (setup_database, get_articles) changes any of its fields or deletes
\* it, and the number of rows never decreases
C8_RowsNeverChange ==
    [][/\ Len(store') >= Len(store)
       /\ \A i \in 1..Len(store) : store'[i] = store[i]]_vars

\* C8 witness: rows of both fetchers are stored, inserts under taken links have
\* been made, both fetchers are in their second round and the dashboard has
\* set up the table and read it
C8_Witness ==
    /\ Len(store) >= 2
    /\ hist.ignored # {}
    /\ once_run = 2 /\ pool_cycle = 2
    /\ view.called /\ ~view.raised /\ Len(view.rows) >= 2
    /\ \E i \in 1..Len(store) : store[i].relevance_score # NULL_REAL

\* the rows the table held when get_articles last read it
SeenRows == {store[i] : i \in 1..view.seen}

\* the ids of the rows get_articles last returned
ReturnedIds == {view.rows[i].id : i \in 1..Len(view.rows)}

\* row r satisfies the search and the category of the last query
OtherFilters(r) ==
    /\ view.search_query # <<>> => search_condition(r, view.search_query)
    /\ view.category # "All" =>
          category_condition(r, PREDEFINED_CATEGORIES[view.category])

\* C9: get_articles with source_filter "arXiv" returns only the rows whose source
\* is "arXiv", and every such row that satisfies the other filters; with "RSS"
\* only rows whose source is not "arXiv"; with "All" the source restricts nothing
C9_SourceFilter ==
    view.called /\ ~view.raised =>
        /\ view.source_filter = "arXiv" =>
              ReturnedIds = {r.id : r \in {x \in SeenRows :
                                             x.source = "arXiv" /\ OtherFilters(x)}}
        /\ view.source_filter = "RSS" =>
              ReturnedIds = {r.id : r \in {x \in SeenRows :
                                             x.source # "arXiv" /\ OtherFilters(x)}}
        /\ view.source_filter = "All" =>
              ReturnedIds = {r.id : r \in {x \in SeenRows : OtherFilters(x)}}

\* C9 witness: a query for "arXiv" returned a row while rows of RSS feeds that
\* satisfy the other filters were in the table
C9_Witness ==
    /\ view.called /\ ~view.raised /\ view.source_filter = "arXiv"
    /\ view.rows # <<>>
    /\ \E r \in SeenRows : r.source # "arXiv" /\ OtherFilters(r)

\* text t contains text k, letters compared without regard to case
ContainsText(t, k) ==
    \E i \in 0..(Len(t) - Len(k)) :
        \A j \in 1..Len(k) : lower_char(t[i + j]) = lower_char(k[j])

\* row x passes the source filter of the last query
SourceAllows(x) ==
    /\ view.source_filter = "arXiv" => x.source = "arXiv"
    /\ view.source_filter = "RSS" => x.source # "arXiv"

\* a search text and a category were both given in the last query
BothGiven == view.called /\ ~view.raised /\ view.search_query # <<>> /\ view.category # "All"

\* C10 as stated: with a search text and a category, get_articles returns exactly
\* the rows whose title or snippet contains the search text and whose title or
\* snippet contains at least one keyword of the category
C10_ContainsAndCategory ==
    BothGiven =>
        ReturnedIds = {x.id : x \in {r \in SeenRows :
            /\ SourceAllows(r)
            /\ \/ ContainsText(r.title, view.search_query)
               \/ ContainsText(r.snippet, view.search_query)
            /\ \E k \in 1..Len(PREDEFINED_CATEGORIES[view.category]) :
                  \/ ContainsText(r.title, PREDEFINED_CATEGORIES[view.category][k])
                  \/ ContainsText(r.snippet, PREDEFINED_CATEGORIES[view.category][k])}}

\* C10 amended: with a search text and a category, get_articles returns exactly
\* the rows whose title or snippet matches LIKE '%text%' (letters without regard
\* to case, '_' and '%' in the text as wildcards) and whose title or snippet
\* matches LIKE '%keyword%' for a keyword of the category: the intersection, so
\* that no row is returned that either condition alone rejects
C10_LikeAndCategory ==
    BothGiven =>
        /\ ReturnedIds = {x.id : x \in {r \in SeenRows :
              /\ SourceAllows(r)
              /\ search_condition(r, view.search_query)
              /\ category_condition(r, PREDEFINED_CATEGORIES[view.category])}}
        /\ \A i \in 1..Len(view.rows) :
              /\ search_condition(view.rows[i], view.search_query)
              /\ category_condition(view.rows[i], PREDEFINED_CATEGORIES[view.category])

\* C10 witness: a query with both filters returned a row and left out a row
\* that the search alone accepts
C10_Witness ==
    /\ BothGiven /\ view.rows # <<>>
    /\ \E r \in SeenRows :
          /\ SourceAllows(r) /\ search_condition(r, view.search_query)
          /\ ~category_condition(r, PREDEFINED_CATEGORIES[view.category])


\* the value is a string (a tuple of characters), never an exception
IsString(x) == DOMAIN x = 1..Len(x)

Dated(e) == "published_parsed" \in DOMAIN e

\* the entries of the feeds that carry link l
EntriesWith(l) ==
    {e \in UNION {{web.feeds[f].entries[k] : k \in 1..Len(web.feeds[f].entries)} :
                     f \in DOMAIN web.feeds} : get(e, "link", "") = l}

Appended == IF Len(store') > Len(store) THEN {store'[Len(store')]} ELSE {}

\* C16 as stated: whichever program writes the store, no RSS entry dated before
\* the cutoff (the time of the write less DAYS_LIMIT days) gets a row
C16_OldNeverStored ==
    [][\A r \in Appended :
          r.source # "arXiv" => ~(r.published_date.t < now' - DAYS_LIMIT)]_vars

\* C16 amended: integrated-fetcher.py and exp_rss.py discard an entry dated
\* before the cutoff they computed when the fetch began, and do not discard the
\* entry dated exactly at the cutoff (with a keyword in its title it is stored,
\* or returned); fetcher.py applies no cutoff and processes an entry of any age
C16_OldDiscardedByRunOnce ==
    [][/\ once_pc = "rss_entry" /\ once_entries' # once_entries
              /\ Dated(Head(once_entries)) =>
            LET entry == Head(once_entries)
            IN  /\ entry.published_parsed < once_cutoff => store' = store
                /\ entry.published_parsed = once_cutoff
                     /\ HasKeyword(get(entry, "title", <<>>), <<>>, <<>>)
                     /\ RowsOf(get(entry, "link", "No link")) = {} =>
                       \E r \in Appended :
                          /\ r.link = get(entry, "link", "No link")
                          /\ r.published_date = strftime(once_cutoff)
       /\ calc.done = {} /\ calc'.done = {"fetch_feed"} =>
            LET feed == web.feeds[calc'.feed]
                kept == IF calc'.feed_data = None THEN {}
                        ELSE {calc'.feed_data.entries[k].link :
                                 k \in 1..Len(calc'.feed_data.entries)}
            IN  \A k \in 1..Len(feed.entries) :
                   LET entry == feed.entries[k]
                   IN  Dated(entry) =>
                         /\ (\A e \in EntriesWith(entry.link) :
                                Dated(e) /\ e.published_parsed < calc'.cutoff_date) =>
                               entry.link \notin kept
                         /\ entry.published_parsed = calc'.cutoff_date
                              /\ HasKeyword(get(entry, "title", <<>>), <<>>, <<>>) =>
                               entry.link \in kept
       /\ \A f \in FeedNames :
            task[f].pc = "process" /\ task'[f] # task[f] =>
               task'[f].pc = "insert"]_vars

\* integrated-fetcher.py has stored the entry dated exactly at its cutoff
C16_Witness ==
    \E i \in 1..Len(store) :
        /\ store[i].link = "u3"
        /\ store[i].source = FEEDS[1]
        /\ store[i].published_date = strftime(once_cutoff)
        /\ once_run = 1


\* the feed is flagged bozo and feedparser recovered entries from it
Recovered(feed) == feed.status = "bozo" /\ feed.entries # <<>>

\* C17 as stated: a program that gets a bozo feed goes on with the entries that
\* were recovered from it
C17_BozoEntriesProcessed ==
    [][/\ once_pc = "rss_parse" /\ once_pc' # once_pc
              /\ Recovered(web.feeds[FEEDS[once_feed]]) =>
            once_pc' = "rss_entry" /\ once_entries' = web.feeds[FEEDS[once_feed]].entries
       /\ \A f \in FeedNames :
            task[f].pc = "parse" /\ task'[f] # task[f] /\ Recovered(web.feeds[f]) =>
               task'[f].pc = "check" /\ task'[f].entries = web.feeds[f].entries]_vars

\* C17 amended: fetch_feed.py and exp_rss.py go on with the entries recovered
\* from a bozo feed; integrated-fetcher.py and fetcher.py skip the bozo feed,
\* storing none of its entries, and go on with the next feed
C17_BozoFeedSkippedByFetchers ==
    [][/\ once_pc = "rss_parse" /\ (once_pc' # once_pc \/ once_feed' # once_feed)
              /\ Recovered(web.feeds[FEEDS[once_feed]]) =>
            /\ store' = store /\ once_entries' = <<>>
            /\ IF once_feed < Len(FEEDS)
               THEN once_pc' = "rss_parse" /\ once_feed' = once_feed + 1
               ELSE once_pc' = "arxiv_get"
       /\ \A f \in FeedNames :
            task[f].pc = "parse" /\ task'[f] # task[f] /\ Recovered(web.feeds[f]) =>
               task'[f].pc = "done" /\ store' = store
       /\ calc.done = {} /\ calc'.done = {"list_feed"}
              /\ Recovered(web.feeds[calc'.feed]) =>
            /\ ~calc'.feed_data.raised
            /\ Len(calc'.feed_data.entries) = Len(web.feeds[calc'.feed].entries)
            /\ \A k \in 1..Len(calc'.feed_data.entries) :
                  calc'.feed_data.entries[k].title = web.feeds[calc'.feed].entries[k].title
       /\ calc.done = {} /\ calc'.done = {"fetch_feed"}
              /\ Recovered(web.feeds[calc'.feed]) =>
            \A k \in 1..Len(web.feeds[calc'.feed].entries) :
               LET entry == web.feeds[calc'.feed].entries[k]
               IN  Dated(entry) /\ ~(entry.published_parsed < calc'.cutoff_date)
                     /\ Pages[entry.link].status = 200
                     /\ HasKeywordCollapsed(<<>>, <<>>, Pages[entry.link].text) =>
                       /\ calc'.feed_data # None
                       /\ \E j \in 1..Len(calc'.feed_data.entries) :
                             calc'.feed_data.entries[j].link = entry.link]_vars

\* a cycle of fetcher.py is over, the first feed was flagged bozo with a
\* recovered entry and the table is empty
C17_Witness ==
    /\ Recovered(web.feeds[FEEDS[1]])
    /\ pool_cycle = 1 /\ task[FEEDS[1]].pc = "done" /\ task[FEEDS[2]].pc = "done"
    /\ store = <<>>


\* k occurs in t, letter for letter
Occurs(t, k) ==
    \E i \in 0..(Len(t) - Len(k)) : \A j \in 1..Len(k) : t[i + j] = k[j]

\* the text starts with "Error"
ErrorPrefixed(t) == Len(t) >= 5 /\ SubSeq(t, 1, 5) = <<"E","r","r","o","r">>

\* the output carries the marker of the score field
HasMarker(o) == ~o.fail /\ Occurs(strip(o.text), RelevanceMarker)

\* the word after the marker holds a number float() accepts
HasScore(o) ==
    /\ HasMarker(o)
    /\ LET word == first_word(split(strip(o.text), RelevanceMarker)[2])
       IN  first_number_run(word) # <<>> /\ float_of(first_number_run(word)).ok

C19_ScoresInRange ==
    \A i \in 1..Len(store) :
        /\ 0 <= store[i].relevance_score /\ store[i].relevance_score <= 100
        /\ 0 <= store[i].novelty_score /\ store[i].novelty_score <= 100
        /\ 0 <= store[i].heat_score /\ store[i].heat_score <= 100

\* C19 amended: every row written by fetcher.py has novelty and heat scores in
\* [0, 100]; its relevance score is the number the summariser printed after the
\* marker, which is not negative and may exceed 100, or 0 when there is none
C19_HeuristicScoresInRange ==
    \A i \in 1..Len(store) :
        /\ 0 <= store[i].relevance_score
        /\ 0 <= store[i].novelty_score /\ store[i].novelty_score <= 100
        /\ 0 <= store[i].heat_score /\ store[i].heat_score <= 100

\* the summariser printed 850 for an article dated a day ahead whose text has
\* trending indicators: relevance 850, heat cut to 100
C19_Witness ==
    \E i \in 1..Len(store) :
        /\ store[i].relevance_score = 850
        /\ store[i].link = "u4"
        /\ store[i].heat_score = 100


\* the dashboard has read the table as it is now
ViewCurrent == view.called /\ ~view.raised /\ view.seen = Len(store)

\* row r of a query result gives back field c of article a
ReadsBack(r, a, c) == c \in DOMAIN r /\ r[c] = a[c]

\* C11 as stated: an article inserted under a link not yet stored is read back
\* by get_articles without filters with every field it was inserted with
C11_RoundTripAllFields ==
    ViewCurrent /\ "fresh" \in DOMAIN calc =>
        \A a \in calc.fresh :
           \E k \in 1..Len(view.rows) : \A c \in DOMAIN a : ReadsBack(view.rows[k], a, c)

\* C11 amended: it is read back with the title, link, snippet, published_date,
\* source, locations and the three scores it was inserted with, in one result
\* row; full_text is stored but is not among the columns get_articles returns
C11_RoundTripSelectedFields ==
    ViewCurrent /\ "fresh" \in DOMAIN calc =>
        \A a \in calc.fresh :
           /\ Cardinality({k \in 1..Len(view.rows) : view.rows[k].link = a.link}) = 1
           /\ \E k \in 1..Len(view.rows) :
                 /\ \A c \in DOMAIN a \ {"full_text"} : ReadsBack(view.rows[k], a, c)
                 /\ "full_text" \notin DOMAIN view.rows[k]
           /\ \E i \in 1..Len(store) :
                 store[i].link = a.link /\ store[i].full_text = a.full_text

\* two articles were inserted under different links and the dashboard has read
\* both
C11_Witness ==
    /\ ViewCurrent /\ "fresh" \in DOMAIN calc
    /\ Cardinality(calc.fresh) = 2
    /\ Len(view.rows) = 2


\* the sources of a run of integrated-fetcher.py, in the order of the program
OnceSources == FEEDS \o <<"arXiv">>

\* C12: in every run each feed of FEEDS, and in the run-once fetcher arXiv after
\* them, is attempted exactly once, whatever the other feeds did: the attempts
\* of a run in progress are the first sources in order, none twice, the run is
\* at the source after the last one attempted, a run that is over has attempted
\* every source once, and in a cycle of fetcher.py every feed is waiting in the
\* executor's queue or has been attempted once
C12_EachSourceAttemptedOnce ==
    /\ Len(hist.once_tried) <= Len(OnceSources)
    /\ hist.once_tried = SubSeq(OnceSources, 1, Len(hist.once_tried))
    /\ once_pc = "done" => hist.once_tried = OnceSources
    /\ once_pc = "rss_parse" => hist.once_tried = SubSeq(FEEDS, 1, once_feed - 1)
    /\ once_pc = "rss_entry" => hist.once_tried = SubSeq(FEEDS, 1, once_feed)
    /\ once_pc = "arxiv_get" => hist.once_tried = FEEDS
    /\ \A f \in FeedNames :
          /\ hist.pool_tried[f] <= 1
          /\ task[f].pc = "done" => hist.pool_tried[f] = 1
          /\ task[f].pc = "idle" /\ pool_pc = "join" =>
                \E k \in 1..Len(queue) : queue[k] = f

\* the first feed could not be fetched, and the run went on to the second feed
\* and to arXiv, whose entry it stored
C12_Witness ==
    /\ web.feeds[FEEDS[1]].status = "down"
    /\ once_pc = "done"
    /\ hist.once_tried = OnceSources
    /\ \E i \in 1..Len(store) : store[i].source = "arXiv"


\* the feeds whose fetch_feed call has begun and not returned
InProgress == {f \in DOMAIN task : task[f].pc \notin {"idle", "done"}}

\* C20: at most MAX_WORKERS feeds are in progress at any moment; each feed of a
\* cycle is taken by one thread, once; within a feed the entries are handled in
\* feed order, one at a time: an entry is checked, processed and inserted (its
\* row is in the table) before the thread turns to the next entry
C20_BoundedPoolSequentialFeeds ==
    /\ [](Cardinality(InProgress) <= MAX_WORKERS)
    /\ [](\A f \in DOMAIN task :
            /\ hist.pool_tried[f] <= 1
            /\ task[f].pc = "done" => hist.pool_tried[f] = 1
            /\ task[f].pc # "idle" => \A k \in 1..Len(queue) : queue[k] # f
            /\ \E k \in 1..Len(web.feeds[f].entries) + 1 :
                  task[f].entries = SubSeq(web.feeds[f].entries, k,
                                           Len(web.feeds[f].entries)))
    /\ [][\A f \in DOMAIN task :
            LET t == task[f]
                t2 == task'[f]
            IN  t2 # t /\ pool_cycle' = pool_cycle =>
                  /\ t.pc = "idle" => t2.pc = "parse"
                  /\ t.pc = "check" =>
                        \/ t2.pc = "process" /\ t2.entries = t.entries
                        \/ t2.entries = Tail(t.entries) /\ store' = store
                  /\ t.pc = "process" =>
                        /\ t2.pc = "insert" /\ t2.entries = t.entries /\ store' = store
                        /\ t2.article.link = Head(t.entries).link
                  /\ t.pc = "insert" =>
                        /\ t2.entries = Tail(t.entries)
                        /\ t2.pc = IF Len(t.entries) > 1 THEN "check" ELSE "done"
                        /\ \E i \in 1..Len(store') : store'[i].link = t.article.link
                  /\ t.pc # "done"]_vars

\* five feeds are in progress, the first thread is inserting the first of two
\* entries, and the sixth feed waits in the executor's queue
C20_Witness ==
    /\ Cardinality(InProgress) = MAX_WORKERS
    /\ queue # <<>>
    /\ task[FETCHER_FEEDS[1]].pc = "insert"
    /\ Len(task[FETCHER_FEEDS[1]].entries) = 2

(***************************************************************************)
(* Sort orders of get_articles                                             *)
(***************************************************************************)
\* the column a sort key orders by, as the claim lists them; any other key
\* orders by published_date
SortColumn(sort_by) ==
    IF sort_by = "relevance" THEN "relevance_score"
    ELSE IF sort_by = "novelty" THEN "novelty_score"
    ELSE IF sort_by = "heat" THEN "heat_score"
    ELSE "published_date"

\* a stored value is not below another: numbers as numbers, dates as their text
NotBelow(column, x, y) ==
    IF column = "published_date" THEN date_text_rank(x) >= date_text_rank(y)
    ELSE x >= y

\* the rows the WHERE clause of the view's query kept, of the rows it saw
ViewHits ==
    {i \in 1..view.seen :
        where_clause(store[i], view.search_query, view.source_filter, view.category)}

\* C21: get_articles lists the rows in non-increasing order of the column its
\* sort key names (published_date for "date" and for any unknown key,
\* relevance_score, novelty_score, heat_score for the other three), and the
\* sort key never changes which rows are returned: they are the rows the
\* filters keep, each once.
C21_FourSortOrders ==
    (view.called /\ ~view.raised) =>
        /\ \A i, j \in 1..Len(view.rows) :
              i < j => NotBelow(SortColumn(view.sort_by),
                                view.rows[i][SortColumn(view.sort_by)],
                                view.rows[j][SortColumn(view.sort_by)])
        /\ Len(view.rows) = Cardinality(ViewHits)
        /\ {view.rows[i].id : i \in 1..Len(view.rows)} = {store[i].id : i \in ViewHits}

\* three rows are listed under a key that reverses their insertion order, and
\* under an unknown key by date
C21_Witness ==
    /\ view.called /\ ~view.raised /\ Len(view.rows) = 3
    /\ view.sort_by \in {"novelty", "title"}
    /\ view.rows[1].id > view.rows[2].id
    /\ \E i \in 1..2 : view.rows[i][SortColumn(view.sort_by)]
                           # view.rows[i + 1][SortColumn(view.sort_by)]

(***************************************************************************)
(* Empty results                                                           *)
(***************************************************************************)
\* C23: when the query matches no row (an empty table, or filters that exclude
\* every row) the dashboard shows an empty result set and no error is raised
\* or surfaced to the user.
C23_EmptyResultNoError ==
    (view.called /\ ~view.raised /\ view.rows = <<>>) => view.surfaced = "none"

(***************************************************************************)
(* One schema for all components                                           *)
(***************************************************************************)
\* C27: whichever component created the articles table, it has every column
\* the pool fetcher's insert_article and the dashboard's get_articles name: no
\* insert and no query fails on a missing column.
C27_NoMissingColumn ==
    /\ columns # {} => (ColumnsFull \subseteq columns /\ SelectColumns \subseteq columns)
    /\ hist.raised = {}
    /\ ~view.raised

(***************************************************************************)
(* Links of stored rows                                                    *)
(***************************************************************************)
\* C28: no row has an empty link or the placeholder link "No link"; an entry
\* without a link is never inserted.
C28_NoPlaceholderLink ==
    \A i \in 1..Len(store) : store[i].link \notin {"", "No link"}

(***************************************************************************)
(* Date order across the two date formats                                  *)
(***************************************************************************)
\* the hour a published_date string denotes, counted from day 0
instant(d) == d.t * 24 + hour_of(d)

\* C29: with sort_by = "date" get_articles lists the articles newest first in
\* true chronological order, also over RSS rows and arXiv rows together: no
\* article published earlier than another is listed before it.
C29_DateOrderChronological ==
    (view.called /\ ~view.raised /\ view.sort_by = "date") =>
        \A i, j \in 1..Len(view.rows) :
            i < j => instant(view.rows[i].published_date)
                        >= instant(view.rows[j].published_date)

(***************************************************************************)
(* Schema creation                                                         *)
(***************************************************************************)
\* C22: schema creation is idempotent: a call of create_articles_table,
\* DatabaseManager() or setup_database while the table exists leaves its
\* columns and every row as they are, whichever component calls and however
\* often.
C22_CreateIdempotent ==
    [][(columns # {} /\ (OnceStart \/ PoolStart \/ DashSetup))
          => (columns' = columns /\ store' = store)]_vars

\* the table the run-once fetcher created holds a row, and the dashboard and
\* the pool fetcher have both issued their CREATE TABLE since
C22_Witness ==
    /\ columns = ColumnsOnce /\ Len(store) > 0
    /\ dash_pc = "ready" /\ pool_pc # "idle" /\ once_run = MaxRuns

(***************************************************************************)
(* Each insert is committed on its own                                     *)
(***************************************************************************)
\* the run-once fetcher is about to insert the RSS entry at hand, whose link
\* has no row
OnceInsertsFresh ==
    /\ once_pc = "rss_entry"
    /\ LET entry == Head(once_entries)
           link == IF "link" \in DOMAIN entry THEN entry.link ELSE "No link"
       IN  /\ parse_published(entry).ok
           /\ ~too_old(parse_published(entry).t, once_cutoff)
           /\ keyword_filter(get(entry, "title", NoTitle), get(entry, "summary", NoSummary),
                             IF link # "No link" THEN extract_full_text_once(Pages[link])
                             ELSE <<>>)
           /\ \A i \in 1..Len(store) : store[i].link # link

\* C24: each insert is committed on its own: the row of an article is in the
\* table as soon as its insert_article call has returned, and no later step -
\* a failure inside a feed, the end of the process at any point, a later run -
\* removes or changes a row inserted before it.
C24_InsertsCommittedSingly ==
    [][/\ Len(store') >= Len(store)
       /\ SubSeq(store', 1, Len(store)) = store
       /\ (OnceInsertsFresh /\ OnceEntry)
             => \E i \in 1..Len(store') : store'[i].link = Head(once_entries).link
       /\ \A f \in PoolFeeds :
             (/\ task[f].pc = "insert" /\ TaskInsert(f)
              /\ ~insert_article_raises(columns)
              /\ \A i \in 1..Len(store) : store[i].link # task[f].article.link)
                => \E i \in 1..Len(store') : store'[i].link = task[f].article.link]_vars

\* the first feed holds two entries with links of their own, the second feed
\* none; a fetcher has ended after its first insert (the run-once fetcher
\* before it reached the second feed, the pool fetcher before the second
\* entry's insert) and the first row is in the table
C24_Witness ==
    /\ Len(web.feeds[FEEDS[1]].entries) = 2
    /\ web.feeds[FEEDS[1]].status = "ok"
    /\ web.feeds[FEEDS[1]].entries[1].link # web.feeds[FEEDS[1]].entries[2].link
    /\ web.feeds[FEEDS[2]].entries = <<>>
    /\ Len(store) = 1
    /\ \/ once_pc = "done" /\ once_run = 1 /\ hist.once_tried = <<FEEDS[1]>>
       \/ pool_pc = "idle" /\ pool_cycle = 1 /\ hist.pool_added = 1

(***************************************************************************)
(* Collection cycles do not overlap                                        *)
(***************************************************************************)
\* C25: collect_feeds returns only after every feed task it submitted has
\* finished, failed feeds included: whenever the loop of main() is between two
\* cycles no feed waits or runs and, from the first cycle on, every task is
\* done; so no worker of one cycle runs when the next cycle submits its
\* feeds, and a cycle submits each feed exactly once.
C25_CyclesDoNotOverlap ==
    /\ [](pool_pc = "collect" =>
            /\ queue = <<>>
            /\ \A f \in DOMAIN task : task[f].pc \in {"idle", "done"}
            /\ pool_cycle > 0 => \A f \in DOMAIN task : task[f].pc = "done")
    /\ [][pool_cycle' # pool_cycle =>
            /\ \A f \in DOMAIN task : task[f].pc \in {"idle", "done"}
            /\ \A f \in DOMAIN task : Cardinality({k \in 1..Len(queue') : queue'[k] = f}) = 1
            /\ Len(queue') = Cardinality(DOMAIN task)]_vars

\* the second cycle has just submitted its feeds, after a first cycle in which
\* one feed stored rows and the others could not be fetched
C25_Witness ==
    /\ pool_cycle = 2 /\ pool_pc = "join"
    /\ Len(queue) = Cardinality(DOMAIN task)
    /\ Len(store) > 0
    /\ \E f \in DOMAIN task : web.feeds[f].status = "down"

(***************************************************************************)
(* The novelty score has two values                                        *)
(***************************************************************************)
\* the innovation indicators that occur in the lower-cased text
IndicatorsIn(text) ==
    {k \in 1..Len(innovation_indicators) :
        Occurs(lower(text), innovation_indicators[k].indicator)}

\* C26: calculate_novelty_score returns exactly 100 when the lower-cased text
\* contains at least one innovation indicator and exactly 0 when it contains
\* none; how many indicators match, and with which weights, does not change it.
C26_NoveltyZeroOrHundred ==
    \A n \in calc.novelty :
        n = IF IndicatorsIn(calc.text) # {} THEN 100 ELSE 0

\* a text in capitals with one of the indicators, of weight 6, scored 100
C26_Witness ==
    /\ "text" \in DOMAIN calc
    /\ Cardinality(IndicatorsIn(calc.text)) = 1
    /\ calc.novelty = {100}

(***************************************************************************)
(* chunk_text                                                              *)
(***************************************************************************)
\* the sequences of a sequence, one after the other
RECURSIVE ConcatAll(_)
ConcatAll(seqs) == IF seqs = <<>> THEN <<>> ELSE Head(seqs) \o ConcatAll(Tail(seqs))

\* C30: chunk_text(text, max_tokens) with max_tokens >= 1 splits the
\* whitespace-separated words of text into chunks: every chunk but the last
\* has exactly max_tokens words, the last has between 1 and max_tokens, no
\* chunk is empty, and the words of the chunks in order are the words of the
\* text, none lost, repeated or moved; a text without words gives no chunk.
C30_ChunksPartitionWords ==
    ("max_tokens" \in DOMAIN calc /\ "chunks" \in calc.done) =>
        LET chunks == calc.chunks
            count(i) == Len(split_ws(chunks[i]))
        IN  /\ \A i \in 1..Len(chunks) - 1 : count(i) = calc.max_tokens
            /\ Len(chunks) > 0 => (1 <= count(Len(chunks))
                                    /\ count(Len(chunks)) <= calc.max_tokens)
            /\ \A i \in 1..Len(chunks) : chunks[i] # <<>>
            /\ ConcatAll([i \in 1..Len(chunks) |-> split_ws(chunks[i])])
                  = split_ws(calc.text)
            /\ split_ws(calc.text) = <<>> => chunks = <<>>

\* four words between line breaks cut into a chunk of three and one of one
C30_Witness ==
    /\ "max_tokens" \in DOMAIN calc /\ "chunks" \in calc.done
    /\ calc.max_tokens = 3
    /\ Len(split_ws(calc.text)) = 4
    /\ Len(calc.chunks) = 2
    /\ \E i \in 1..Len(calc.text) : calc.text[i] = "\n"
====
